---- MODULE Spec2Model ----
(***************************************************************************)
(* Verification model of the JobFinder matching and ranking subsystem:     *)
(* the hybrid scorer (src/matching/scorer.py), the versioned vector index  *)
(* wrapper (src/db/vector_db.py) and the search pipeline                   *)
(* (app/streamlit_app.py).                                                 *)
(*                                                                         *)
(* Numbers that are floats in the program are exact rationals <<n, d>>     *)
(* here (d > 0, lowest terms); strings are sequences of one-character      *)
(* strings.                                                                *)
(***************************************************************************)
EXTENDS Integers, Sequences, FiniteSets, TLC

VARIABLES
    scall,      \* scorer: the last score_job / score_jobs call and its outcome
    chroma,     \* vector store: collection name -> collection (persist dir)
    hcol,       \* VectorDB handle (one per version) -> cached _collection
    vres,       \* vector store: the last VectorDB call and its outcome
    live,       \* history: collection name -> ids written and not deleted
    rows,       \* metadata row store: job id -> Job
    sres,       \* search pipeline: the last run_search call and its outcome
    em_model,   \* EmbeddingManager._model: None or the loaded instance
    em_dim,     \* EmbeddingManager._embedding_dim
    em_loads,   \* history: number of SentenceTransformer instances constructed
    em_pc,      \* caller -> its position in config() / embed_text()
    em_used,    \* caller -> what its call came back with
    tcall,      \* text functions: the last call and its outcome
    build,      \* index builder: the run of main() in progress, or the last one
    session,    \* Streamlit st.session_state: resume and feedback keys
    app_state   \* AppState._resume_profile of the API process

\* the shared EmbeddingManager and its callers
embVars == <<em_model, em_dim, em_loads, em_pc, em_used>>

\* the index builder run, the Streamlit session and the API state
appVars == <<build, session, app_state>>

vars == <<scall, chroma, hcol, vres, live, rows, sres, embVars, tcall, appVars>>

\* Python's None and a present optional value
None == <<>>
Some(x) == <<x>>
Val(o) == o[1]

-----------------------------------------------------------------------------
(* Bounds                                                                  *)

MaxJobs == 3        \* longest job list handed to score_jobs
NumIds == 2         \* number of distinct job ids in the vector store
MaxLen == 2         \* longest sequence handed to upsert_jobs
MaxTopK == 2        \* largest top_k handed to run_search
NumCallers == 2     \* threads calling the shared EmbeddingManager
MaxTokens == 3      \* longest text handed to the text functions, in tokens

-----------------------------------------------------------------------------
(* Exact rational arithmetic                                               *)

RECURSIVE GCD(_, _)
GCD(a, b) == IF b = 0 THEN a ELSE GCD(b, a % b)

Abs(x) == IF x < 0 THEN -x ELSE x

Rat(n, d) ==
    LET g == GCD(Abs(n), d)
    IN  IF n = 0 THEN <<0, 1>> ELSE <<n \div g, d \div g>>

LCM(a, b) == (a \div GCD(a, b)) * b

RAdd(x, y) ==
    LET l == LCM(x[2], y[2])
    IN  Rat(x[1] * (l \div x[2]) + y[1] * (l \div y[2]), l)

RSub(x, y) == RAdd(x, <<-y[1], y[2]>>)

RMul(x, y) ==
    LET g1 == GCD(Abs(x[1]), y[2])
        g2 == GCD(Abs(y[1]), x[2])
        a == IF x[1] = 0 THEN 0 ELSE x[1] \div g1
        b == IF y[1] = 0 THEN 0 ELSE y[1] \div g2
        c == IF x[1] = 0 THEN 1 ELSE x[2] \div g2
        d == IF y[1] = 0 THEN 1 ELSE y[2] \div g1
    IN  Rat(a * b, c * d)

\* x / y for y > 0
RDiv(x, y) == RMul(x, <<y[2], y[1]>>)

RLe(x, y) ==
    LET l == LCM(x[2], y[2])
    IN  x[1] * (l \div x[2]) <= y[1] * (l \div y[2])

RLt(x, y) == ~RLe(y, x)

RMax(x, y) == IF RLt(x, y) THEN y ELSE x

RMin(x, y) == IF RLt(y, x) THEN y ELSE x

R0 == <<0, 1>>
R1 == <<1, 1>>
RHalf == <<1, 2>>

RECURSIVE RSumSeq(_)
RSumSeq(s) == IF s = <<>> THEN R0 ELSE RAdd(s[1], RSumSeq(Tail(s)))

-----------------------------------------------------------------------------
(* Strings                                                                 *)

Range(s) == {s[i] : i \in DOMAIN s}

UpperCase == {"A", "L", "N", "R", "S", "U", "Y", "G", "Q", "C"}

LowerOf ==
    [c \in UpperCase |->
        CASE c = "A" -> "a" [] c = "L" -> "l" [] c = "N" -> "n"
          [] c = "R" -> "r" [] c = "S" -> "s" [] c = "U" -> "u"
          [] c = "Y" -> "y" [] c = "G" -> "g" [] c = "Q" -> "q"
          [] c = "C" -> "c"]

\* str.lower()
Lower(s) == [i \in DOMAIN s |-> IF s[i] \in UpperCase THEN LowerOf[s[i]] ELSE s[i]]

\* a in b (substring test)
Contains(b, a) ==
    \E p \in 0..(Len(b) - Len(a)) : \A i \in 1..Len(a) : b[p + i] = a[i]

\* str.replace(old, new) for one-character old and new
ReplaceChar(s, old, new) == [i \in DOMAIN s |-> IF s[i] = old THEN new ELSE s[i]]

IsSpace(c) == c \in {" ", "\n", "\t", "\r"}

\* set(str.split()): the maximal runs of non-whitespace characters
SplitWords(s) ==
    { SubSeq(s, a, b) : <<a, b>> \in
        { p \in (1..Len(s)) \X (1..Len(s)) :
            /\ p[1] <= p[2]
            /\ \A i \in p[1]..p[2] : ~IsSpace(s[i])
            /\ (p[1] = 1 \/ IsSpace(s[p[1] - 1]))
            /\ (p[2] = Len(s) \/ IsSpace(s[p[2] + 1])) } }

S_remote == <<"r", "e", "m", "o", "t", "e">>

\* characters in ascending code-point order (the ones the model uses)
CharOrder ==
    <<"\t", "\n", "\r", " ", "!", "\"", "#", "&", "'", "(", ")", "+",
      ",", "-", ".", "/", "0", "1", "2", "3", "4", "5", "6", "7",
      "8", "9", ":", ";", "<", "=", ">", "?", "A", "C", "G", "J",
      "L", "N", "Q", "R", "S", "T", "U", "Y", "_", "a", "b",
      "c", "d", "e", "f", "g", "h", "i", "j", "k", "l", "m", "n",
      "o", "p", "q", "r", "s", "t", "u", "v", "w", "x", "y", "z">>

CharRank(c) == CHOOSE i \in DOMAIN CharOrder : CharOrder[i] = c

\* a < b on str
RECURSIVE StrLess(_, _)
StrLess(a, b) ==
    IF b = <<>> THEN FALSE
    ELSE IF a = <<>> THEN TRUE
    ELSE IF a[1] = b[1] THEN StrLess(Tail(a), Tail(b))
    ELSE CharRank(a[1]) < CharRank(b[1])

\* sorted(S) for a set of strings
RECURSIVE SortedStrs(_)
SortedStrs(S) ==
    IF S = {} THEN <<>>
    ELSE LET m == CHOOSE x \in S : \A y \in S \ {x} : StrLess(x, y)
         IN  <<m>> \o SortedStrs(S \ {m})

\* the element of a one-element set
TheOnly(S) == CHOOSE x \in S : TRUE

\* s[:n]
Take(s, n) == SubSeq(s, 1, IF Len(s) < n THEN Len(s) ELSE n)

-----------------------------------------------------------------------------
(* Text cleaner: extract_skills_simple                                     *)

\* regex \w
NonWordChars ==
    {"\n", "\r", "\t", " ", "#", "+", ",", ".", "/", "<", ">", "&", ";", "-", "=",
     "\"", "'", "(", ")", "!", ":", "?", "*"}

IsWordChar(c) == c \notin NonWordChars

\* regex \b at the position after the first p characters of s
WordBoundary(s, p) ==
    LET before == p >= 1 /\ IsWordChar(s[p])
        after == p < Len(s) /\ IsWordChar(s[p + 1])
    IN  before # after

\* re.search(r"\b" + re.escape(skill) + r"\b", text)
SkillPatternFound(text, skill) ==
    \E p \in 0..(Len(text) - Len(skill)) :
        /\ \A i \in 1..Len(skill) : text[p + i] = skill[i]
        /\ WordBoundary(text, p)
        /\ WordBoundary(text, p + Len(skill))

\* the default skills_list, cut down to three of its entries
SkillsList == << <<"g", "o">>, <<"s", "q", "l">>, <<"c", "+", "+">> >>

extract_skills_simple(text) ==
    LET text_lower == Lower(text)
        found_skills ==
            {Lower(SkillsList[i]) : i \in
                {k \in DOMAIN SkillsList : SkillPatternFound(text_lower, Lower(SkillsList[k]))}}
    IN  SortedStrs(found_skills)

-----------------------------------------------------------------------------
(* Text cleaner: clean_job_text and clean_resume_text                      *)

\* the least element of a non-empty set of integers
Least(S) == CHOOSE x \in S : \A y \in S : x <= y

\* HTML_TAG_PATTERN.sub(" ", s) from position i on: "<", one or more
\* characters other than ">", then ">"
RECURSIVE RemoveTagsFrom(_, _)
RemoveTagsFrom(s, i) ==
    IF i > Len(s) THEN <<>>
    ELSE LET closers == { j \in (i + 2)..Len(s) : s[j] = ">" }
         IN  IF s[i] = "<" /\ i + 1 <= Len(s) /\ s[i + 1] # ">" /\ closers # {}
             THEN <<" ">> \o RemoveTagsFrom(s, Least(closers) + 1)
             ELSE <<s[i]>> \o RemoveTagsFrom(s, i + 1)

\* HTML_TAG_PATTERN.search(s)
HasTag(s) ==
    \E i \in 1..Len(s) : \E j \in (i + 2)..Len(s) :
        s[i] = "<" /\ s[i + 1] # ">" /\ s[j] = ">"

\* the character references html.unescape decodes, of those the texts can hold
Entities ==
    { [name |-> <<"l", "t">>, char |-> "<"],
      [name |-> <<"g", "t">>, char |-> ">"],
      [name |-> <<"a", "m", "p">>, char |-> "&"] }

\* s continues with t after its first i characters
StartsAt(s, i, t) ==
    i + Len(t) <= Len(s) /\ \A k \in 1..Len(t) : s[i + k] = t[k]

\* html.unescape(s) from position i on: one pass, left to right; a reference
\* is "&", the name, and a ";" if one follows
RECURSIVE UnescapeFrom(_, _)
UnescapeFrom(s, i) ==
    IF i > Len(s) THEN <<>>
    ELSE LET hit == { e \in Entities : s[i] = "&" /\ StartsAt(s, i, e.name) }
         IN  IF hit = {} THEN <<s[i]>> \o UnescapeFrom(s, i + 1)
             ELSE LET e == CHOOSE x \in hit : TRUE
                      after == i + Len(e.name)
                  IN  <<e.char>> \o
                      UnescapeFrom(s, IF StartsAt(s, after, <<";">>)
                                      THEN after + 2 ELSE after + 1)

\* .replace("\r\n", "\n").replace("\r", "\n")
RECURSIVE NormalizeLineEndings(_)
NormalizeLineEndings(s) ==
    IF s = <<>> THEN <<>>
    ELSE IF s[1] = "\r" /\ Len(s) >= 2 /\ s[2] = "\n"
         THEN <<"\n">> \o NormalizeLineEndings(Tail(Tail(s)))
    ELSE IF s[1] = "\r" THEN <<"\n">> \o NormalizeLineEndings(Tail(s))
    ELSE <<s[1]>> \o NormalizeLineEndings(Tail(s))

\* MULTI_SPACE_PATTERN.sub(" ", s): every run of spaces and tabs becomes " "
RECURSIVE CollapseSpaces(_)
CollapseSpaces(s) ==
    IF s = <<>> THEN <<>>
    ELSE IF s[1] \in {" ", "\t"}
         THEN IF Len(s) >= 2 /\ s[2] \in {" ", "\t"}
              THEN CollapseSpaces(Tail(s))
              ELSE <<" ">> \o CollapseSpaces(Tail(s))
    ELSE <<s[1]>> \o CollapseSpaces(Tail(s))

\* length of the run of "\n" at the head of s
RECURSIVE NewlineRun(_)
NewlineRun(s) ==
    IF s # <<>> /\ s[1] = "\n" THEN 1 + NewlineRun(Tail(s)) ELSE 0

\* MULTI_NEWLINE_PATTERN.sub("\n\n", s): every run of 3 or more "\n" becomes 2
RECURSIVE CollapseNewlines(_)
CollapseNewlines(s) ==
    IF s = <<>> THEN <<>>
    ELSE LET n == NewlineRun(s)
         IN  IF n >= 3 THEN <<"\n", "\n">> \o CollapseNewlines(SubSeq(s, n + 1, Len(s)))
             ELSE IF n >= 1 THEN SubSeq(s, 1, n) \o CollapseNewlines(SubSeq(s, n + 1, Len(s)))
             ELSE <<s[1]>> \o CollapseNewlines(Tail(s))

\* str.strip()
Strip(s) ==
    LET keep == { i \in DOMAIN s : ~IsSpace(s[i]) }
    IN  IF keep = {} THEN <<>>
        ELSE SubSeq(s, Least(keep), CHOOSE x \in keep : \A y \in keep : y <= x)

\* s.split("\n")
RECURSIVE SplitLines(_)
SplitLines(s) ==
    LET breaks == { i \in DOMAIN s : s[i] = "\n" }
    IN  IF breaks = {} THEN <<s>>
        ELSE <<SubSeq(s, 1, Least(breaks) - 1)>>
             \o SplitLines(SubSeq(s, Least(breaks) + 1, Len(s)))

\* "\n".join(lines)
RECURSIVE JoinLines(_)
JoinLines(lines) ==
    IF lines = <<>> THEN <<>>
    ELSE IF Len(lines) = 1 THEN lines[1]
    ELSE lines[1] \o <<"\n">> \o JoinLines(Tail(lines))

\* BOILERPLATE_PATTERNS that are one phrase between word boundaries, the
\* optional groups written out
BoilerplatePhrases ==
    { <<"e", "q", "u", "a", "l", " ", "o", "p", "p", "o", "r", "t", "u", "n", "i", "t", "y", " ", "e", "m", "p", "l", "o", "y", "e", "r">>,
      <<"e", "o", "e">>,
      <<"e", "e", "o">>,
      <<"a", "c", "c", "o", "m", "m", "o", "d", "a", "t", "i", "o", "n", " ", "a", "v", "a", "i", "l", "a", "b", "l", "e">>,
      <<"a", "c", "c", "o", "m", "m", "o", "d", "a", "t", "i", "o", "n", "s", " ", "a", "v", "a", "i", "l", "a", "b", "l", "e">>,
      <<"w", "e", " ", "a", "r", "e", " ", "a", "n", " ", "e", "q", "u", "a", "l", " ", "o", "p", "p", "o", "r", "t", "u", "n", "i", "t", "y">>,
      <<"c", "l", "i", "c", "k", " ", "t", "o", " ", "a", "p", "p", "l", "y">>,
      <<"c", "l", "i", "c", "k", " ", "h", "e", "r", "e", " ", "t", "o", " ", "a", "p", "p", "l", "y">>,
      <<"a", "p", "p", "l", "y", " ", "n", "o", "w">> }

\* the two halves of the pattern "by applying.*you agree"
S_by_applying == <<"b", "y", " ", "a", "p", "p", "l", "y", "i", "n", "g">>
S_you_agree == <<"y", "o", "u", " ", "a", "g", "r", "e", "e">>

\* a phrase of s starts after p characters, at a word boundary
PhraseStartsAt(s, p, phrase) == StartsAt(s, p, phrase) /\ WordBoundary(s, p)

\* a phrase of s ends after q characters, at a word boundary
PhraseEndsAt(s, q, phrase) ==
    q >= Len(phrase) /\ StartsAt(s, q - Len(phrase), phrase) /\ WordBoundary(s, q)

\* any(pattern.search(stripped) for pattern in BOILERPLATE_PATTERNS)
IsBoilerplate(stripped) ==
    LET low == Lower(stripped)
    IN  \/ \E phrase \in BoilerplatePhrases : SkillPatternFound(low, phrase)
        \/ \E p \in 0..Len(low), q \in 0..Len(low) :
               /\ p + Len(S_by_applying) <= q - Len(S_you_agree)
               /\ PhraseStartsAt(low, p, S_by_applying)
               /\ PhraseEndsAt(low, q, S_you_agree)

\* the loop over lines of clean_job_text: blank lines become "", boilerplate
\* lines are dropped
RECURSIVE FilterLines(_)
FilterLines(lines) ==
    IF lines = <<>> THEN <<>>
    ELSE LET stripped == Strip(lines[1])
         IN  IF stripped = <<>> THEN << <<>> >> \o FilterLines(Tail(lines))
             ELSE IF IsBoilerplate(stripped) THEN FilterLines(Tail(lines))
             ELSE <<lines[1]>> \o FilterLines(Tail(lines))

\* steps 1 to 5, common to both cleaners
NormalizeText(text) ==
    CollapseNewlines(CollapseSpaces(NormalizeLineEndings(
        UnescapeFrom(RemoveTagsFrom(text, 1), 1))))

\* clean_job_text(text): the CleanTextResult
clean_job_text(text) ==
    IF text = <<>>
    THEN [text |-> <<>>, was_html |-> FALSE, removed_chars |-> 0, original_length |-> 0]
    ELSE LET cleaned == Strip(JoinLines(FilterLines(SplitLines(NormalizeText(text)))))
         IN  [text |-> cleaned, was_html |-> HasTag(text),
              removed_chars |-> Len(text) - Len(cleaned), original_length |-> Len(text)]

\* clean_resume_text(text): the CleanTextResult
clean_resume_text(text) ==
    IF text = <<>>
    THEN [text |-> <<>>, was_html |-> FALSE, removed_chars |-> 0, original_length |-> 0]
    ELSE LET cleaned == Strip(NormalizeText(text))
         IN  [text |-> cleaned, was_html |-> HasTag(text),
              removed_chars |-> Len(text) - Len(cleaned), original_length |-> Len(text)]

-----------------------------------------------------------------------------
(* Hybrid scorer                                                           *)

\* the keys of ScoringWeights.to_dict / ScoreBreakdown.to_dict, in dict order
CompSeq == <<"embedding_sim", "skill_overlap", "recency", "location", "salary">>

Components == Range(CompSeq)

\* ScoringWeights defaults
DEFAULT_WEIGHTS ==
    [c \in Components |->
        CASE c = "embedding_sim" -> <<11, 20>>
          [] c = "skill_overlap" -> <<1, 4>>
          [] c = "recency" -> <<1, 10>>
          [] c = "location" -> <<7, 100>>
          [] c = "salary" -> <<3, 100>>]

RECENCY_HALF_LIFE_DAYS == 30

\* the values of dict d, in dict order
DictValues(d) ==
    LET keys == SelectSeq(CompSeq, LAMBDA k : k \in DOMAIN d)
    IN  [i \in DOMAIN keys |-> d[keys[i]]]

RenormalizeUnscaled(w, exclude) ==
    [k \in Components \ exclude |-> w[k]]

\* ScoringWeights.renormalize
Renormalize(w, exclude) ==
    LET available == [k \in Components \ exclude |-> w[k]]
        total == RSumSeq(DictValues(available))
    IN  IF total = R0
        THEN [k \in DOMAIN available |-> Rat(1, Cardinality(DOMAIN available))]
        ELSE [k \in DOMAIN available |-> RDiv(available[k], total)]

SimilarityUnclamped(distance) == RSub(R1, distance)

\* HybridScorer.distance_to_similarity
distance_to_similarity(distance) == RMax(R0, RMin(R1, RSub(R1, distance)))

SkillOverlapJaccard(resume_skills, job_text) ==
    LET job_skills == Range(extract_skills_simple(job_text))
        matched == resume_skills \cap job_skills
        missing == job_skills \ resume_skills
    IN  IF job_skills = {}
        THEN <<RHalf, {}, {}>>
        ELSE <<Rat(Cardinality(matched), Cardinality(resume_skills \cup job_skills)),
               matched, missing>>

\* HybridScorer.compute_skill_overlap: <<score, matched, missing>>
compute_skill_overlap(resume_skills, job_text) ==
    LET job_skills == Range(extract_skills_simple(job_text))
        matched == resume_skills \cap job_skills
        missing == job_skills \ resume_skills
    IN  IF job_skills = {}
        THEN <<RHalf, {}, {}>>
        ELSE <<Rat(Cardinality(matched), Cardinality(job_skills)), matched, missing>>

RECURSIVE Pow2(_)
Pow2(k) == IF k = 0 THEN 1 ELSE 2 * Pow2(k - 1)

\* HybridScorer.compute_recency; posted_days = (now - posted_at).days, which
\* the model keeps to whole multiples of the half-life so that
\* exp(-ln 2 * days_ago / H) = 2 ^ -(days_ago / H) is exact
compute_recency(posted_days) ==
    LET days_ago == IF posted_days < 0 THEN 0 ELSE posted_days
        recency == Rat(1, Pow2(days_ago \div RECENCY_HALF_LIFE_DAYS))
    IN  RMax(R0, RMin(R1, recency))

\* HybridScorer.compute_location_match
compute_location_match(job_location, preferred_location) ==
    IF preferred_location = None \/ Val(preferred_location) = <<>>
    THEN RHalf
    ELSE
        LET job_loc_lower == Lower(job_location)
            pref_lower == Lower(Val(preferred_location))
            pref_words == SplitWords(pref_lower)
            job_words == SplitWords(ReplaceChar(job_loc_lower, ",", " "))
        IN  IF Contains(pref_lower, S_remote) /\ Contains(job_loc_lower, S_remote)
            THEN R1
            ELSE IF Contains(job_loc_lower, pref_lower) \/ Contains(pref_lower, job_loc_lower)
            THEN R1
            ELSE IF pref_words \cap job_words # {}
            THEN <<7, 10>>
            ELSE <<3, 10>>

\* the job's mid salary in compute_salary_match, None without salary data
JobSalaryMid(job_salary_min, job_salary_max) ==
    IF job_salary_min # None /\ job_salary_max # None
    THEN Some(Rat(Val(job_salary_min) + Val(job_salary_max), 2))
    ELSE IF job_salary_max # None THEN Some(Rat(Val(job_salary_max), 1))
    ELSE IF job_salary_min # None THEN Some(Rat(Val(job_salary_min), 1))
    ELSE None

\* compute_salary_match raises ZeroDivisionError at ratio = mid / user_min
SalaryMatchRaises(job_salary_min, job_salary_max, user_min_salary) ==
    /\ user_min_salary # None
    /\ JobSalaryMid(job_salary_min, job_salary_max) # None
    /\ Val(user_min_salary) = 0

\* HybridScorer.compute_salary_match (where it does not raise)
compute_salary_match(job_salary_min, job_salary_max, user_min_salary) ==
    LET job_salary_mid == JobSalaryMid(job_salary_min, job_salary_max)
    IN  IF user_min_salary = None THEN RHalf
        ELSE IF job_salary_mid = None THEN RHalf
        ELSE
            LET ratio == RDiv(Val(job_salary_mid), <<Val(user_min_salary), 1>>)
            IN  IF RLe(R1, ratio) THEN R1
                ELSE IF RLe(<<4, 5>>, ratio)
                THEN RAdd(<<3, 5>>, RMul(RSub(ratio, <<4, 5>>), <<2, 1>>))
                ELSE RMax(R0, RMul(ratio, <<3, 4>>))

\* HybridScorer.generate_explanation: the phrases joined into the sentence
generate_explanation(breakdown, matched_skills, missing_skills) ==
    LET semantic == IF RLe(<<7, 10>>, breakdown["embedding_sim"]) THEN <<"Strong semantic match">>
                    ELSE IF RLe(RHalf, breakdown["embedding_sim"]) THEN <<"Good semantic match">>
                    ELSE <<>>
        covers == IF matched_skills # {} THEN <<"covers required skills">> ELSE <<>>
        lacks == IF Cardinality(missing_skills) > 3 THEN <<"missing skills">> ELSE <<>>
        recent == IF RLe(<<4, 5>>, breakdown["recency"]) THEN <<"posted recently">> ELSE <<>>
        parts == semantic \o covers \o lacks \o recent
    IN  IF parts = <<>> THEN <<"Moderate match">> ELSE parts

\* the exclude set built in score_job
ExcludeSet(job, resume_profile) ==
    (IF resume_profile.preferred_location = None THEN {"location"} ELSE {})
    \cup (IF resume_profile.min_salary = None /\ job.salary_min = None
          THEN {"salary"} ELSE {})

\* HybridScorer.score_job raises (ZeroDivisionError out of compute_salary_match)
ScoreJobRaises(job, resume_profile) ==
    SalaryMatchRaises(job.salary_min, job.salary_max, resume_profile.min_salary)

\* the five component scores computed in score_job
Breakdown(job, chroma_distance, resume_profile) ==
    [c \in Components |->
        CASE c = "embedding_sim" -> distance_to_similarity(chroma_distance)
          [] c = "skill_overlap" ->
                compute_skill_overlap(resume_profile.skills, job.description)[1]
          [] c = "recency" -> compute_recency(job.posted_days)
          [] c = "location" ->
                compute_location_match(job.location, resume_profile.preferred_location)
          [] c = "salary" ->
                compute_salary_match(job.salary_min, job.salary_max,
                                     resume_profile.min_salary)]

\* the ScoredJob built at the end of score_job
ScoredJob(job, chroma_distance, skill, breakdown, weights) ==
    LET contributions == [k \in DOMAIN weights |-> RMul(breakdown[k], weights[k])]
    IN  [job |-> job,
         total_score |-> RSumSeq(DictValues(contributions)),
         breakdown |-> breakdown,
         weights |-> weights,
         contributions |-> contributions,
         matched_skills |-> SortedStrs(skill[2]),
         missing_skills |-> Take(SortedStrs(skill[3]), 10),
         explanation |-> generate_explanation(breakdown, skill[2], skill[3]),
         chroma_distance |-> chroma_distance]

\* HybridScorer.score_job: the ScoredJob (where it does not raise); the skill
\* overlap, the breakdown and the effective weights are each computed once
score_job(w, job, chroma_distance, resume_profile) ==
    TheOnly({ ScoredJob(job, chroma_distance, skill, breakdown, weights) :
                skill \in { compute_skill_overlap(resume_profile.skills, job.description) },
                breakdown \in { Breakdown(job, chroma_distance, resume_profile) },
                weights \in { Renormalize(w, ExcludeSet(job, resume_profile)) } })

\* position at which list.sort(key=total_score, reverse=True) places x among
\* the already sorted s: after every element whose key is >= x's (stable)
InsertBeforeTies(s, x) ==
    LET k == Cardinality({i \in DOMAIN s : RLt(x.total_score, s[i].total_score)})
    IN  SubSeq(s, 1, k) \o <<x>> \o SubSeq(s, k + 1, Len(s))

InsertDescending(s, x) ==
    LET k == Cardinality({i \in DOMAIN s : RLe(x.total_score, s[i].total_score)})
    IN  SubSeq(s, 1, k) \o <<x>> \o SubSeq(s, k + 1, Len(s))

RECURSIVE SortByScoreDesc(_)
SortByScoreDesc(s) ==
    IF s = <<>> THEN <<>>
    ELSE InsertDescending(SortByScoreDesc(SubSeq(s, 1, Len(s) - 1)), s[Len(s)])

\* HybridScorer.score_jobs: <<status, list>>
score_jobs(w, jobs, distances, resume_profile) ==
    IF Len(jobs) # Len(distances) THEN <<"ValueError", <<>>>>
    ELSE IF \E i \in DOMAIN jobs : ScoreJobRaises(jobs[i], resume_profile)
    THEN <<"ZeroDivisionError", <<>>>>
    ELSE <<"ok", TheOnly({ SortByScoreDesc(scored) :
                             scored \in { [i \in DOMAIN jobs |->
                                             score_job(w, jobs[i], distances[i],
                                                       resume_profile)] } })>>

-----------------------------------------------------------------------------
(* Scorer inputs                                                           *)

Descriptions ==
    { <<>>,
      <<"G", "o">>,
      <<"g", "o", " ", "s", "q", "l">> }

JobLocations ==
    { <<"R", "e", "m", "o", "t", "e">>,
      <<"N", "Y">>,
      <<"L", "A", ",", " ", "U", "S">> }

PreferredLocations ==
    { None,
      Some(<<>>),
      Some(<<"r", "e", "m", "o", "t", "e">>),
      Some(<<"n", "y">>),
      Some(<<"u", "s", " ", "l", "a">>),
      Some(<<"u", "s", ",", " ", "n", "y">>) }

\* (now - posted_at).days: a future posting, today, one and two half-lives
PostedDays == {-30, 0, 30, 60}

\* <<salary_min, salary_max>> of a job, in thousands
JobSalaries ==
    { <<None, None>>, <<None, Some(120)>>, <<Some(90), None>>,
      <<Some(40), Some(120)>>, <<Some(90), Some(120)>> }

MinSalaries == {None, Some(0), Some(100)}

SkillSets == { {}, {<<"g", "o">>}, {<<"g", "o">>, <<"s", "q", "l">>, <<"c", "+", "+">>} }

Distances == { <<0, 1>>, <<3, 10>>, <<6, 5>> }

WeightChoices ==
    { DEFAULT_WEIGHTS,
      [c \in Components |-> IF c \in {"location", "salary"} THEN RHalf ELSE R0],
      [c \in Components |-> IF c = "embedding_sim" THEN R1 ELSE R0] }

MkJob(id, description, location, posted_days, salary) ==
    [id |-> id, source |-> "adzuna", source_id |-> id, description |-> description,
     location |-> location, posted_days |-> posted_days,
     salary_min |-> salary[1], salary_max |-> salary[2], label |-> None]

AllJobs ==
    { MkJob("j1", d, l, p, s) :
        d \in Descriptions, l \in JobLocations, p \in PostedDays, s \in JobSalaries }

Profiles ==
    [skills : SkillSets, preferred_location : PreferredLocations, min_salary : MinSalaries]

\* the jobs ranked together: j1 and j2 differ in their id only
RankedJobs ==
    { MkJob("j1", <<"G", "o">>, <<"N", "Y">>, 0, <<Some(90), Some(120)>>),
      MkJob("j2", <<"G", "o">>, <<"N", "Y">>, 0, <<Some(90), Some(120)>>),
      MkJob("j3", <<>>, <<"R", "e", "m", "o", "t", "e">>, 60, <<None, None>>) }

RankedProfiles ==
    { [skills |-> {<<"g", "o">>}, preferred_location |-> None, min_salary |-> None],
      [skills |-> {}, preferred_location |-> Some(<<"n", "y">>), min_salary |-> Some(100)],
      [skills |-> {}, preferred_location |-> Some(<<"n", "y">>), min_salary |-> Some(0)] }

RankedDistances == { <<3, 10>>, <<6, 5>> }

SeqsUpTo(S, n) == UNION { [1..k -> S] : k \in 0..n }

-----------------------------------------------------------------------------
(* Scorer calls                                                            *)

NoCall == [op |-> "none"]

\* ScoringWeights(...).renormalize(exclude)
RenormalizeCall ==
    /\ scall = NoCall
    /\ \E w \in WeightChoices, exclude \in SUBSET Components :
         scall' = [op |-> "renormalize", weights |-> w, exclude |-> exclude,
                   status |-> "ok", result |-> Renormalize(w, exclude)]
    /\ UNCHANGED <<chroma, hcol, vres, live, rows, sres, embVars, tcall, appVars>>

\* HybridScorer(weights).score_job(job, chroma_distance, resume_profile)
ScoreJobCall ==
    /\ scall = NoCall
    /\ \E w \in WeightChoices, job \in AllJobs, d \in Distances, profile \in Profiles :
         scall' = [op |-> "score_job", weights |-> w, jobs |-> <<job>>,
                   distances |-> <<d>>, profile |-> profile,
                   status |-> IF ScoreJobRaises(job, profile)
                              THEN "ZeroDivisionError" ELSE "ok",
                   result |-> IF ScoreJobRaises(job, profile)
                              THEN <<>> ELSE <<score_job(w, job, d, profile)>>]
    /\ UNCHANGED <<chroma, hcol, vres, live, rows, sres, embVars, tcall, appVars>>

\* HybridScorer().score_jobs(jobs, distances, resume_profile)
ScoreJobsCall ==
    /\ scall = NoCall
    /\ \E jobs \in SeqsUpTo(RankedJobs, MaxJobs),
          distances \in SeqsUpTo(RankedDistances, MaxJobs),
          profile \in RankedProfiles :
         \E out \in { score_jobs(DEFAULT_WEIGHTS, jobs, distances, profile) } :
             scall' = [op |-> "score_jobs", weights |-> DEFAULT_WEIGHTS, jobs |-> jobs,
                       distances |-> distances, profile |-> profile,
                       status |-> out[1], result |-> out[2]]
    /\ UNCHANGED <<chroma, hcol, vres, live, rows, sres, embVars, tcall, appVars>>

NextScorer == RenormalizeCall \/ ScoreJobCall \/ ScoreJobsCall

-----------------------------------------------------------------------------
(* Vector store                                                            *)

\* chroma_collection, the base collection name
BaseName == <<"j", "o", "b", "s">>

\* embedding version ids; there is one VectorDB handle per version
Versions == { <<"A">>, <<"B">> }

CollectionNameUnversioned(base, embedding_version) == base

\* VectorDB.__init__: self._collection_name
CollectionName(base, embedding_version) == base \o <<"_", "_">> \o embedding_version

IdSeq == <<"j1", "j2", "j3", "j4">>

Ids == { IdSeq[i] : i \in 1..NumIds }

\* embeddings, all of the same Euclidean norm (5)
Embeddings == { <<5, 0>>, <<3, 4>>, <<0, 5>> }

Dot(u, v) == u[1] * v[1] + u[2] * v[2]

\* hnsw:space = cosine: distance = 1 - u.v / (|u| |v|), for |u| = |v|
CosineDistance(u, v) == Rat(Dot(u, u) - Dot(u, v), Dot(u, u))

\* the collection's own embedding of a document, used when upsert gets none
DefaultEmbed(document) == IF document = "d1" THEN <<5, 0>> ELSE <<0, 5>>

NoCollections == [n \in {} |-> {}]

\* chromadb client.get_or_create_collection(name, metadata)
ClientGetOrCreate(store, name, embedding_version) ==
    IF name \in DOMAIN store THEN store
    ELSE [n \in DOMAIN store \cup {name} |->
            IF n = name
            THEN [embedding_version |-> embedding_version, records |-> {}]
            ELSE store[n]]

\* VectorDB.get_or_create_collection: <<store, cached collection>>
get_or_create_collection(store, cached, h) ==
    IF cached = None
    THEN <<ClientGetOrCreate(store, CollectionName(BaseName, h), h),
           CollectionName(BaseName, h)>>
    ELSE <<store, Val(cached)>>

HasDuplicates(seq) == \E i, j \in DOMAIN seq : i < j /\ seq[i] = seq[j]

CollectionAddOnly(records, ids, documents, embeddings, metadatas) ==
    records \cup
        { [id |-> ids[i], document |-> documents[i],
           embedding |-> embeddings[i], metadata |-> metadatas[i]] : i \in DOMAIN ids }

\* chromadb collection.upsert of one batch of distinct ids
CollectionUpsert(records, ids, documents, embeddings, metadatas) ==
    { r \in records : r.id \notin Range(ids) } \cup
        { [id |-> ids[i], document |-> documents[i],
           embedding |-> embeddings[i], metadata |-> metadatas[i]] : i \in DOMAIN ids }

Min(a, b) == IF a < b THEN a ELSE b

\* s[i:j] with 0-based i and exclusive j
Slice(s, i, j) == SubSeq(s, i + 1, Min(j, Len(s)))

\* the batch loop of upsert_jobs from offset i on:
\* <<status, records, total_upserted>>
RECURSIVE UpsertBatches(_, _, _, _, _, _, _, _)
UpsertBatches(records, ids, documents, embeddings, metadatas, batch_size, i, total) ==
    IF i >= Len(ids) THEN <<"ok", records, total>>
    ELSE
        LET batch_end == Min(i + batch_size, Len(ids))
            batch_ids == Slice(ids, i, batch_end)
            batch_docs == Slice(documents, i, batch_end)
            batch_meta == Slice(metadatas, i, batch_end)
            batch_embeddings ==
                IF embeddings # None THEN Slice(Val(embeddings), i, batch_end)
                ELSE [k \in DOMAIN batch_docs |-> DefaultEmbed(batch_docs[k])]
        IN  IF HasDuplicates(batch_ids)
            THEN <<"DuplicateIDError", records, total>>
            ELSE UpsertBatches(
                    CollectionUpsert(records, batch_ids, batch_docs,
                                     batch_embeddings, batch_meta),
                    ids, documents, embeddings, metadatas, batch_size,
                    i + batch_size, total + Len(batch_ids))

UpsertLengthError(ids, documents, embeddings, metadatas) ==
    \/ Len(documents) # Len(ids)
    \/ Len(metadatas) # Len(ids)
    \/ (embeddings # None /\ Len(Val(embeddings)) # Len(ids))

\* the checks upsert_jobs makes before it touches the collection
UpsertGuard(ids, documents, embeddings, metadatas) ==
    IF ids = <<>> THEN "return 0"
    ELSE IF UpsertLengthError(ids, documents, embeddings, metadatas) THEN "ValueError"
    ELSE "proceed"

\* VectorDB.upsert_jobs: <<store, cached collection, status, value, items written>>
upsert_jobs(store, cached, h, ids, documents, embeddings, metadatas, batch_size) ==
    LET guard == UpsertGuard(ids, documents, embeddings, metadatas)
        goc == get_or_create_collection(store, cached, h)
    IN  IF guard = "return 0" THEN <<store, cached, "ok", Some(0), 0>>
        ELSE IF guard = "ValueError" THEN <<store, cached, "ValueError", None, 0>>
        ELSE IF goc[2] \notin DOMAIN goc[1] THEN <<store, cached, "NotFoundError", None, 0>>
        ELSE
            LET out == UpsertBatches(goc[1][goc[2]].records, ids, documents,
                                     embeddings, metadatas, batch_size, 0, 0)
            IN  <<[goc[1] EXCEPT ![goc[2]].records = out[2]], Some(goc[2]), out[1],
                  IF out[1] = "ok" THEN Some(out[3]) ELSE None, out[3]>>

\* permutations of a finite set, as sequences
Perms(S) ==
    { f \in [1..Cardinality(S) -> S] : \A i, j \in DOMAIN f : i # j => f[i] # f[j] }

\* the metadata filter of a query: None, or posted_at >= where.gte
WhereMatches(where, metadata) ==
    where = None \/ metadata.posted_at >= Val(where).gte

\* chromadb collection.query for one query embedding: the hit lists the
\* store may return, nearest first, ties in any order
CollectionQuery(records, query_embedding, n_results, where) ==
    LET hits == { [id |-> r.id, document |-> r.document, metadata |-> r.metadata,
                   distance |-> CosineDistance(query_embedding, r.embedding)] :
                  r \in { x \in records : WhereMatches(where, x.metadata) } }
    IN  { Take(s, n_results) :
            s \in { f \in Perms(hits) :
                      \A i, j \in DOMAIN f : i < j => RLe(f[i].distance, f[j].distance) } }

\* VectorDB.query: the outcomes <<store, cached collection, status, hits>>;
\* the store rejects n_results < 1
query(store, cached, h, query_embedding, n_results, where) ==
    LET goc == get_or_create_collection(store, cached, h)
    IN  IF goc[2] \notin DOMAIN goc[1] THEN { <<store, cached, "NotFoundError", <<>>>> }
        ELSE IF n_results <= 0 THEN { <<goc[1], Some(goc[2]), "TypeError", <<>>>> }
        ELSE { <<goc[1], Some(goc[2]), "ok", hits>> :
                 hits \in CollectionQuery(goc[1][goc[2]].records, query_embedding,
                                          n_results, where) }

\* VectorDB.info: <<store, cached collection, status, VectorIndexInfo>>
info(store, cached, h) ==
    LET goc == get_or_create_collection(store, cached, h)
    IN  IF goc[2] \notin DOMAIN goc[1] THEN <<store, cached, "NotFoundError", None>>
        ELSE <<goc[1], Some(goc[2]), "ok",
               Some([collection_name |-> CollectionName(BaseName, h),
                     embedding_version |-> h,
                     count |-> Cardinality(goc[1][goc[2]].records)])>>

\* VectorDB.get_by_ids: <<store, cached collection, status, records>>
get_by_ids(store, cached, h, ids) ==
    LET goc == get_or_create_collection(store, cached, h)
    IN  IF goc[2] \notin DOMAIN goc[1] THEN <<store, cached, "NotFoundError", {}>>
        ELSE <<goc[1], Some(goc[2]), "ok",
               { [id |-> r.id, document |-> r.document, metadata |-> r.metadata] :
                   r \in { x \in goc[1][goc[2]].records : x.id \in Range(ids) } }>>

\* VectorDB.get_all_ids: <<store, cached collection, status, ids>>
get_all_ids(store, cached, h) ==
    LET goc == get_or_create_collection(store, cached, h)
    IN  IF goc[2] \notin DOMAIN goc[1] THEN <<store, cached, "NotFoundError", {}>>
        ELSE <<goc[1], Some(goc[2]), "ok", { r.id : r \in goc[1][goc[2]].records }>>

DeleteNothing(records, ids) == records

\* chromadb collection.delete(ids)
CollectionDelete(records, ids) == { r \in records : r.id \notin Range(ids) }

\* VectorDB.delete_by_ids: <<store, cached collection, status>>
delete_by_ids(store, cached, h, ids) ==
    LET goc == get_or_create_collection(store, cached, h)
    IN  IF ids = <<>> THEN <<store, cached, "ok">>
        ELSE IF goc[2] \notin DOMAIN goc[1] THEN <<store, cached, "NotFoundError">>
        ELSE <<[goc[1] EXCEPT ![goc[2]].records = CollectionDelete(@, ids)],
               Some(goc[2]), "ok">>

\* VectorDB.delete_collection: <<store, cached collection, status>>; the
\* client raises ValueError for a collection that does not exist
delete_collection(store, cached, h) ==
    LET name == CollectionName(BaseName, h)
    IN  IF name \in DOMAIN store
        THEN <<[n \in DOMAIN store \ {name} |-> store[n]], None, "ok">>
        ELSE <<store, cached, "warning">>

-----------------------------------------------------------------------------
(* Vector store inputs                                                     *)

Documents == <<"d1", "d2">>

\* posted_at of the metadata payload, as a day number
Metadatas == << [posted_at |-> 1], [posted_at |-> 2] >>

\* the entries a well-formed upsert is made of
Payloads ==
    { [document |-> Documents[i], embedding |-> DefaultEmbed(Documents[i]),
       metadata |-> Metadatas[i]] : i \in 1..2 }

\* sequences of one length, with pre-computed embeddings
WellFormedUpserts ==
    UNION { { [ids |-> [i \in 1..k |-> e[i][1]],
               documents |-> [i \in 1..k |-> e[i][2].document],
               embeddings |-> Some([i \in 1..k |-> e[i][2].embedding]),
               metadatas |-> [i \in 1..k |-> e[i][2].metadata]] :
              e \in [1..k -> Ids \X Payloads] } :
            k \in 0..MaxLen }

\* sequences of independent lengths, with or without embeddings, filled with
\* the first id and payload
AnyLengthUpserts ==
    { [ids |-> [i \in 1..li |-> IdSeq[1]],
       documents |-> [i \in 1..ld |-> Documents[1]],
       embeddings |-> IF le = -1 THEN None
                      ELSE Some([i \in 1..le |-> DefaultEmbed(Documents[1])]),
       metadatas |-> [i \in 1..lm |-> Metadatas[1]]] :
      li \in 0..MaxLen, ld \in 0..MaxLen, le \in -1..MaxLen, lm \in 0..MaxLen }

\* batch_size: one item per batch, and the default
BatchSizes == {1, 256}

\* the arguments of upsert_jobs
UpsertInputs ==
    { [ids |-> inp.ids, documents |-> inp.documents, embeddings |-> inp.embeddings,
       metadatas |-> inp.metadatas, batch_size |-> b] :
      inp \in WellFormedUpserts, b \in BatchSizes }
    \cup
    { [ids |-> inp.ids, documents |-> inp.documents, embeddings |-> inp.embeddings,
       metadatas |-> inp.metadatas, batch_size |-> 256] :
      inp \in AnyLengthUpserts }

Wheres == { None, Some([gte |-> 2]) }

-----------------------------------------------------------------------------
(* Vector store calls                                                      *)
(*                                                                         *)
(* A run is any sequence of calls through the two handles; vres records    *)
(* the one call under observation (with its arguments and outcome), which  *)
(* is the last call of the run.                                            *)

Observed(obs, call) == IF obs THEN call ELSE NoCall

UpsertJobs(h, obs) ==
    /\ vres = NoCall
    /\ \E inp \in UpsertInputs :
         \E out \in {upsert_jobs(chroma, hcol[h], h, inp.ids, inp.documents,
                                inp.embeddings, inp.metadatas, inp.batch_size)} :
             /\ chroma' = out[1]
             /\ hcol' = [hcol EXCEPT ![h] = out[2]]
             /\ vres' = Observed(obs,
                         [op |-> "upsert", h |-> h,
                          args |-> inp,
                          status |-> out[3], value |-> out[4]])
             /\ live' = [live EXCEPT ![h] = @ \cup Range(Take(inp.ids, out[5]))]
    /\ UNCHANGED <<scall, rows, sres, embVars, tcall, appVars>>

Query(h, obs) ==
    /\ vres = NoCall
    /\ \E q \in Embeddings, n \in 0..NumIds, where \in Wheres :
         \E out \in query(chroma, hcol[h], h, q, n, where) :
             /\ chroma' = out[1]
             /\ hcol' = [hcol EXCEPT ![h] = out[2]]
             /\ vres' = Observed(obs,
                         [op |-> "query", h |-> h,
                          args |-> [query_embedding |-> q, n_results |-> n,
                                    where |-> where],
                          status |-> out[3], value |-> out[4]])
    /\ UNCHANGED <<scall, live, rows, sres, embVars, tcall, appVars>>

Info(h, obs) ==
    /\ vres = NoCall
    /\ LET out == info(chroma, hcol[h], h)
       IN  /\ chroma' = out[1]
           /\ hcol' = [hcol EXCEPT ![h] = out[2]]
           /\ vres' = Observed(obs,
                       [op |-> "info", h |-> h, status |-> out[3], value |-> out[4]])
    /\ UNCHANGED <<scall, live, rows, sres, embVars, tcall, appVars>>

GetByIds(h, obs) ==
    /\ vres = NoCall
    /\ \E ids \in SeqsUpTo(Ids, MaxLen) :
         LET out == get_by_ids(chroma, hcol[h], h, ids)
         IN  /\ chroma' = out[1]
             /\ hcol' = [hcol EXCEPT ![h] = out[2]]
             /\ vres' = Observed(obs,
                         [op |-> "get", h |-> h, args |-> [ids |-> ids],
                          status |-> out[3], value |-> out[4]])
    /\ UNCHANGED <<scall, live, rows, sres, embVars, tcall, appVars>>

GetAllIds(h, obs) ==
    /\ vres = NoCall
    /\ LET out == get_all_ids(chroma, hcol[h], h)
       IN  /\ chroma' = out[1]
           /\ hcol' = [hcol EXCEPT ![h] = out[2]]
           /\ vres' = Observed(obs,
                       [op |-> "get_all_ids", h |-> h, status |-> out[3],
                        value |-> out[4]])
    /\ UNCHANGED <<scall, live, rows, sres, embVars, tcall, appVars>>

DeleteByIds(h, obs) ==
    /\ vres = NoCall
    /\ \E ids \in SeqsUpTo(Ids, MaxLen) :
         LET out == delete_by_ids(chroma, hcol[h], h, ids)
         IN  /\ chroma' = out[1]
             /\ hcol' = [hcol EXCEPT ![h] = out[2]]
             /\ vres' = Observed(obs,
                         [op |-> "delete", h |-> h, args |-> [ids |-> ids],
                          status |-> out[3]])
             /\ live' = [live EXCEPT ![h] = IF out[3] = "ok" THEN @ \ Range(ids) ELSE @]
    /\ UNCHANGED <<scall, rows, sres, embVars, tcall, appVars>>

DeleteCollection(h, obs) ==
    /\ vres = NoCall
    /\ LET out == delete_collection(chroma, hcol[h], h)
       IN  /\ chroma' = out[1]
           /\ hcol' = [hcol EXCEPT ![h] = out[2]]
           /\ vres' = Observed(obs,
                       [op |-> "delete_collection", h |-> h, status |-> out[3]])
           /\ live' = [live EXCEPT ![h] = IF out[3] = "ok" THEN {} ELSE @]
    /\ UNCHANGED <<scall, rows, sres, embVars, tcall, appVars>>

NextVector ==
    \E h \in Versions, obs \in BOOLEAN :
        \/ UpsertJobs(h, obs)
        \/ Query(h, obs)
        \/ Info(h, obs)
        \/ GetByIds(h, obs)
        \/ GetAllIds(h, obs)
        \/ DeleteByIds(h, obs)
        \/ DeleteCollection(h, obs)

-----------------------------------------------------------------------------
(* Metadata row store                                                      *)

InsertOrReplace(table, job) ==
    [k \in DOMAIN table \cup {job.id} |-> IF k = job.id THEN job ELSE table[k]]

\* MetadataDB.insert_jobs for one job: INSERT OR IGNORE under the primary key
\* id and the unique (source, source_id)
insert_job(table, job) ==
    IF \/ job.id \in DOMAIN table
       \/ \E k \in DOMAIN table :
            table[k].source = job.source /\ table[k].source_id = job.source_id
    THEN table
    ELSE [k \in DOMAIN table \cup {job.id} |-> IF k = job.id THEN job ELSE table[k]]

\* MetadataDB.insert_jobs: <<table, inserted, duplicates>>
RECURSIVE insert_jobs(_, _)
insert_jobs(table, jobs) ==
    IF jobs = <<>> THEN <<table, 0, 0>>
    ELSE LET head == insert_jobs(table, SubSeq(jobs, 1, Len(jobs) - 1))
             after == insert_job(head[1], jobs[Len(jobs)])
         IN  IF after # head[1] THEN <<after, head[2] + 1, head[3]>>
             ELSE <<head[1], head[2], head[3] + 1>>

GetJobsNotRejected(table, job_ids) ==
    [k \in { j \in DOMAIN table \cap Range(job_ids) : table[j].label # Some(0) } |->
        table[k]]

\* MetadataDB.get_jobs_by_ids
get_jobs_by_ids(table, job_ids) ==
    [k \in DOMAIN table \cap Range(job_ids) |-> table[k]]

\* label values: 1 = interested, 0 = not interested, None = cleared
Labels == { None, Some(0), Some(1) }

\* MetadataDB.update_label: <<table, rowcount > 0>>
update_label(table, job_id, label) ==
    IF job_id \in DOMAIN table
    THEN <<[table EXCEPT ![job_id].label = label], TRUE>>
    ELSE <<table, FALSE>>

-----------------------------------------------------------------------------
(* Search pipeline                                                         *)

\* the day number of datetime.now()
Today == 100

\* the posted_at entry of build_job_metadata_for_chroma, as a day number
build_job_metadata_for_chroma(job) == [posted_at |-> Today - job.posted_days]

\* the version id of the embedder the application has loaded
CurrentVersion == <<"A">>

SearchJobs ==
    { MkJob("j1", <<"G", "o">>, <<"N", "Y">>, 0, <<Some(90), Some(120)>>),
      MkJob("j2", <<"G", "o">>, <<"N", "Y">>, 0, <<Some(90), Some(120)>>),
      [MkJob("j3", <<>>, <<"R", "e", "m", "o", "t", "e">>, 60, <<None, None>>)
          EXCEPT !.source = "other"] }

\* the embedding the index builder stores for a job
JobEmbedding(job) ==
    IF job.id = "j3" THEN <<5, 0>> ELSE IF job.id = "j4" THEN <<4, 3>> ELSE <<3, 4>>

SearchProfiles ==
    { [skills |-> {<<"g", "o">>}, preferred_location |-> None, min_salary |-> None,
       embedding |-> <<5, 0>>],
      [skills |-> {}, preferred_location |-> Some(<<"n", "y">>),
       min_salary |-> Some(100), embedding |-> <<3, 4>>] }

\* FilterState: top_k, min_score, recency_days, sources
SearchFilters ==
    [top_k : 0..MaxTopK,
     min_score : { R0, <<11, 20>>, <<9, 10>> },
     recency_days : { None, Some(30) },
     sources : { None, Some({"adzuna"}) }]

RankHitsUnaligned(table, hits, resume_profile, filters) ==
    LET job_map == get_jobs_by_ids(table, [i \in DOMAIN hits |-> hits[i].id])
        kept == SelectSeq(hits, LAMBDA hit :
                    /\ hit.id \in DOMAIN job_map
                    /\ (filters.sources = None
                        \/ job_map[hit.id].source \in Val(filters.sources)))
        jobs == [i \in DOMAIN kept |-> job_map[kept[i].id]]
        job_distances == [i \in DOMAIN kept |-> hits[i].distance]
        scored == score_jobs(DEFAULT_WEIGHTS, jobs, job_distances, resume_profile)
    IN  IF hits = <<>> \/ jobs = <<>> THEN <<"ok", <<>>>>
        ELSE IF scored[1] # "ok" THEN scored
        ELSE <<"ok",
               Take(SelectSeq(scored[2],
                              LAMBDA j : RLe(filters.min_score, j.total_score)),
                    filters.top_k)>>

\* the tail of run_search, from the query results on: <<status, list>>
RankHits(table, hits, resume_profile, filters) ==
    LET job_map == get_jobs_by_ids(table, [i \in DOMAIN hits |-> hits[i].id])
        kept == SelectSeq(hits, LAMBDA hit :
                    /\ hit.id \in DOMAIN job_map
                    /\ (filters.sources = None
                        \/ job_map[hit.id].source \in Val(filters.sources)))
        jobs == [i \in DOMAIN kept |-> job_map[kept[i].id]]
        job_distances == [i \in DOMAIN kept |-> kept[i].distance]
        scored == score_jobs(DEFAULT_WEIGHTS, jobs, job_distances, resume_profile)
    IN  IF hits = <<>> \/ jobs = <<>> THEN <<"ok", <<>>>>
        ELSE IF scored[1] # "ok" THEN scored
        ELSE <<"ok",
               Take(SelectSeq(scored[2],
                              LAMBDA j : RLe(filters.min_score, j.total_score)),
                    filters.top_k)>>

\* run_search: the outcomes <<store, cached collection, status, list, ANN hits>>
run_search(store, cached, table, resume_profile, filters) ==
    LET where_clause ==
            IF filters.recency_days = None THEN None
            ELSE Some([gte |-> Today - Val(filters.recency_days)])
    IN  { <<out[1], out[2],
            IF out[3] # "ok" THEN out[3]
            ELSE RankHits(table, out[4], resume_profile, filters)[1],
            IF out[3] # "ok" THEN <<>>
            ELSE RankHits(table, out[4], resume_profile, filters)[2],
            out[4]>> :
          out \in query(store, cached, CurrentVersion, resume_profile.embedding,
                        filters.top_k * 2, where_clause) }

\* GET /search asks the index for limit + offset + 50 hits, 200 at most
EXTRA_RESULTS == 50
MAX_RESULTS == 200

\* truthiness of an optional string / number
Truthy(o, empty) == o # None /\ Val(o) # empty

\* the location, min_salary and remote_only filters of search_jobs
PassesFilters(job, params) ==
    /\ ~(/\ Truthy(params.location, <<>>)
          /\ ~Contains(Lower(job.location), Lower(Val(params.location))))
    /\ ~(/\ Truthy(params.min_salary, 0)
          /\ Truthy(job.salary_max, 0)
          /\ Val(job.salary_max) < Val(params.min_salary))
    /\ ~(params.remote_only /\ ~Contains(Lower(job.location), S_remote))

\* scored_jobs[offset:offset + limit]
Page(scored_jobs, offset, limit) ==
    SubSeq(scored_jobs, offset + 1, Min(offset + limit, Len(scored_jobs)))

\* the tail of search_jobs, from the query results on:
\* <<status, scored_jobs, paginated>>
ScoreHits(table, hits, profile, params) ==
    LET jobs_map == get_jobs_by_ids(table, [i \in DOMAIN hits |-> hits[i].id])
        kept == SelectSeq(hits, LAMBDA hit :
                    /\ hit.id \in DOMAIN jobs_map
                    /\ PassesFilters(jobs_map[hit.id], params))
        jobs_to_score == [i \in DOMAIN kept |-> jobs_map[kept[i].id]]
        distances_to_score == [i \in DOMAIN kept |-> kept[i].distance]
    IN  IF hits = <<>> THEN <<"ok", <<>>, <<>>>>
        ELSE TheOnly({ IF scored[1] # "ok" THEN <<scored[1], <<>>, <<>>>>
                       ELSE <<"ok", scored[2],
                              Page(scored[2], params.offset, params.limit)>> :
                       scored \in { score_jobs(DEFAULT_WEIGHTS, jobs_to_score,
                                               distances_to_score, profile) } })

\* search_jobs with a resume profile: the outcomes
\* <<store, cached collection, status, scored_jobs, paginated, ANN hits>>
search_jobs(store, cached, table, profile, params, extra, most) ==
    { TheOnly({ <<out[1], out[2],
                  IF out[3] # "ok" THEN out[3] ELSE tail[1],
                  IF out[3] # "ok" THEN <<>> ELSE tail[2],
                  IF out[3] # "ok" THEN <<>> ELSE tail[3],
                  out[4]>> :
                tail \in { ScoreHits(table, out[4], profile, params) } }) :
      out \in query(store, cached, CurrentVersion, profile.embedding,
                    Min(params.limit + params.offset + extra, most), None) }

\* the index builder stores one job
IndexJobOver(jobs) ==
    /\ sres = NoCall
    /\ \E job \in jobs :
         LET out == upsert_jobs(chroma, hcol[CurrentVersion], CurrentVersion,
                                <<job.id>>, <<"d1">>, Some(<<JobEmbedding(job)>>),
                                <<build_job_metadata_for_chroma(job)>>, 256)
         IN  /\ chroma' = out[1]
             /\ hcol' = [hcol EXCEPT ![CurrentVersion] = out[2]]
             /\ live' = [live EXCEPT ![CurrentVersion] = @ \cup {job.id}]
    /\ UNCHANGED <<scall, vres, rows, sres, embVars, tcall, appVars>>

IndexJob == IndexJobOver(SearchJobs)

\* the collector stores one job in the row store
InsertJobOver(jobs) ==
    /\ sres = NoCall
    /\ \E job \in jobs : rows' = insert_job(rows, job)
    /\ UNCHANGED <<scall, chroma, hcol, vres, live, sres, embVars, tcall, appVars>>

InsertJob == InsertJobOver(SearchJobs)

\* the application runs one search with filters among the given ones
RunSearchOver(filter_states) ==
    /\ sres = NoCall
    /\ \E profile \in SearchProfiles, filters \in filter_states :
         \E out \in run_search(chroma, hcol[CurrentVersion], rows, profile, filters) :
             /\ chroma' = out[1]
             /\ hcol' = [hcol EXCEPT ![CurrentVersion] = out[2]]
             /\ sres' = [op |-> "run_search", profile |-> profile, filters |-> filters,
                         hits |-> out[5], status |-> out[3], result |-> out[4]]
    /\ UNCHANGED <<scall, vres, live, rows, embVars, tcall, appVars>>

RunSearch == RunSearchOver(SearchFilters)

\* the query parameters of GET /search: limit >= 1, offset >= 0
SearchParams ==
    [location : { None, Some(<<"n", "y">>) },
     min_salary : { None, Some(100) },
     remote_only : BOOLEAN,
     limit : 1..MaxTopK,
     offset : 0..MaxTopK]

\* a client fetches one page of GET /search
SearchJobsCall ==
    /\ sres = NoCall
    /\ \E profile \in SearchProfiles, params \in SearchParams :
         \E out \in search_jobs(chroma, hcol[CurrentVersion], rows, profile, params,
                                EXTRA_RESULTS, MAX_RESULTS) :
             /\ chroma' = out[1]
             /\ hcol' = [hcol EXCEPT ![CurrentVersion] = out[2]]
             /\ sres' = [op |-> "search_jobs", profile |-> profile, filters |-> params,
                         hits |-> out[6], status |-> out[3], result |-> out[4],
                         page |-> out[5]]
    /\ UNCHANGED <<scall, vres, live, rows, embVars, tcall, appVars>>

NextSearch == IndexJob \/ InsertJob \/ RunSearch \/ SearchJobsCall

\* EXTRA_RESULTS and MAX_RESULTS scaled to the size of the modelled index
PageExtra == 1
PageMost == 3

\* jobs at three different distances from either profile
ApiJobs ==
    { MkJob("j1", <<"G", "o">>, <<"N", "Y">>, 0, <<Some(90), Some(120)>>),
      MkJob("j3", <<>>, <<"R", "e", "m", "o", "t", "e">>, 60, <<None, None>>),
      MkJob("j4", <<>>, <<"N", "Y">>, 60, <<None, None>>) }

IndexApiJob == IndexJobOver(ApiJobs)

InsertApiJob == InsertJobOver(ApiJobs)

\* a client fetches the first page of GET /search
FetchFirstPage ==
    /\ sres = NoCall
    /\ \E profile \in SearchProfiles, params \in SearchParams :
         /\ params.offset = 0
         /\ \E out \in search_jobs(chroma, hcol[CurrentVersion], rows, profile, params,
                                   PageExtra, PageMost) :
               /\ out[3] = "ok"
               /\ chroma' = out[1]
               /\ hcol' = [hcol EXCEPT ![CurrentVersion] = out[2]]
               /\ sres' = [op |-> "pages", profile |-> profile, filters |-> params,
                           pages |-> <<out[5]>>]
    /\ UNCHANGED <<scall, vres, live, rows, embVars, tcall, appVars>>

\* the client fetches the next page: same profile, filters and limit, the
\* offset moved on by limit
FetchNextPage ==
    /\ sres.op = "pages"
    /\ Len(sres.pages) * sres.filters.limit <= MaxTopK
    /\ LET params == [sres.filters EXCEPT
                         !.offset = Len(sres.pages) * sres.filters.limit]
       IN  \E out \in search_jobs(chroma, hcol[CurrentVersion], rows, sres.profile,
                                  params, PageExtra, PageMost) :
               /\ out[3] = "ok"
               /\ chroma' = out[1]
               /\ hcol' = [hcol EXCEPT ![CurrentVersion] = out[2]]
               /\ sres' = [sres EXCEPT !.pages = Append(@, out[5])]
    /\ UNCHANGED <<scall, vres, live, rows, embVars, tcall, appVars>>

NextApi == IndexApiJob \/ InsertApiJob \/ FetchFirstPage \/ FetchNextPage

\* the user saves, rejects or clears the label of a job
UpdateLabel ==
    /\ sres = NoCall
    /\ \E job \in SearchJobs, label \in Labels :
         rows' = update_label(rows, job.id, label)[1]
    /\ UNCHANGED <<scall, chroma, hcol, vres, live, sres, embVars, tcall, appVars>>

\* searches of the whole index: no recency or source filter, the largest top_k
FeedbackFilters ==
    { f \in SearchFilters :
        f.top_k = MaxTopK /\ f.recency_days = None /\ f.sources = None }

NextFeedback == IndexJob \/ InsertJob \/ UpdateLabel \/ RunSearchOver(FeedbackFilters)

-----------------------------------------------------------------------------
(* VectorDB handles constructed with an explicit collection_name           *)
(*                                                                         *)
(* VectorDB(collection_name=..., embedding_version=...) joins base and     *)
(* version with "__"; two handles with different versions can therefore    *)
(* be given the same full collection name.                                 *)

\* VectorDB.__init__: the fields of a handle
VectorDBHandle(collection_name, embedding_version) ==
    [base |-> collection_name,
     version |-> embedding_version,
     name |-> CollectionName(collection_name, embedding_version)]

\* two handles of different versions on one persist directory
NamedHandles ==
    { VectorDBHandle(BaseName, <<"A", "_", "_", "B">>),
      VectorDBHandle(BaseName \o <<"_", "_", "A">>, <<"B">>) }

\* VectorDB.get_or_create_collection of a handle: <<store, cached collection>>
HandleGetOrCreate(store, cached, h) ==
    IF cached = None
    THEN <<ClientGetOrCreate(store, h.name, h.version), h.name>>
    ELSE <<store, Val(cached)>>

\* VectorDB.upsert_jobs of a handle: <<store, cached collection, status>>
HandleUpsert(store, cached, h, inp) ==
    LET guard == UpsertGuard(inp.ids, inp.documents, inp.embeddings, inp.metadatas)
        goc == HandleGetOrCreate(store, cached, h)
    IN  IF guard = "return 0" THEN <<store, cached, "ok">>
        ELSE IF guard = "ValueError" THEN <<store, cached, "ValueError">>
        ELSE IF goc[2] \notin DOMAIN goc[1] THEN <<store, cached, "NotFoundError">>
        ELSE
            LET out == UpsertBatches(goc[1][goc[2]].records, inp.ids, inp.documents,
                                     inp.embeddings, inp.metadatas, inp.batch_size, 0, 0)
            IN  <<[goc[1] EXCEPT ![goc[2]].records = out[2]], Some(goc[2]), out[1]>>

\* VectorDB.query of a handle: the set of <<store, cached collection, status, hits>>
HandleQuery(store, cached, h, query_embedding, n_results, where) ==
    LET goc == HandleGetOrCreate(store, cached, h)
    IN  IF goc[2] \notin DOMAIN goc[1] THEN { <<store, cached, "NotFoundError", <<>>>> }
        ELSE IF n_results <= 0 THEN { <<goc[1], Some(goc[2]), "TypeError", <<>>>> }
        ELSE { <<goc[1], Some(goc[2]), "ok", hits>> :
                 hits \in CollectionQuery(goc[1][goc[2]].records, query_embedding,
                                          n_results, where) }

\* an index build through one of the handles
NamedUpsert(h) ==
    /\ vres = NoCall
    /\ \E inp \in UpsertInputs :
         \E out \in {HandleUpsert(chroma, hcol[h], h, inp)} :
             /\ chroma' = out[1]
             /\ hcol' = [hcol EXCEPT ![h] = out[2]]
    /\ UNCHANGED <<scall, vres, live, rows, sres, embVars, tcall, appVars>>

\* the query under observation
NamedQuery(h) ==
    /\ vres = NoCall
    /\ \E q \in Embeddings, n \in 0..NumIds, where \in Wheres :
         \E out \in HandleQuery(chroma, hcol[h], h, q, n, where) :
             /\ chroma' = out[1]
             /\ hcol' = [hcol EXCEPT ![h] = out[2]]
             /\ vres' = [op |-> "query", h |-> h,
                         args |-> [query_embedding |-> q, n_results |-> n,
                                   where |-> where],
                         status |-> out[3], value |-> out[4]]
    /\ UNCHANGED <<scall, live, rows, sres, embVars, tcall, appVars>>

NextNamed == \E h \in NamedHandles : NamedUpsert(h) \/ NamedQuery(h)

-----------------------------------------------------------------------------
(* EmbeddingManager: lazy model load under concurrent callers              *)
(*                                                                         *)
(* One EmbeddingManager is shared (st.cache_resource, AppState); each      *)
(* caller is a thread inside config() or embed_text().  A step is one      *)
(* statement of _load_model; the statements of different callers           *)
(* interleave freely, as nothing in the class serialises them.             *)

Callers == 1..NumCallers

\* dimension reported by the loaded model, and the fallback of config()
ModelDim == 8
FallbackDim == 384

EmbedOps == {"config", "embed_text"}

\* a caller enters config() or embed_text() and reaches _load_model
EnterCall(t) ==
    /\ em_pc[t] = "idle"
    /\ \E op \in EmbedOps :
         /\ em_pc' = [em_pc EXCEPT ![t] = "test"]
         /\ em_used' = [em_used EXCEPT ![t] = [op |-> op]]
    /\ UNCHANGED <<em_model, em_dim, em_loads>>
    /\ UNCHANGED <<scall, chroma, hcol, vres, live, rows, sres, tcall, appVars>>

\* `if self._model is None:`
TestModel(t) ==
    /\ em_pc[t] = "test"
    /\ em_pc' = [em_pc EXCEPT ![t] = IF em_model = None THEN "construct" ELSE "return"]
    /\ UNCHANGED <<em_model, em_dim, em_loads, em_used>>
    /\ UNCHANGED <<scall, chroma, hcol, vres, live, rows, sres, tcall, appVars>>

\* `self._model = SentenceTransformer(...)`: a new instance is constructed
ConstructModel(t) ==
    /\ em_pc[t] = "construct"
    /\ em_loads' = em_loads + 1
    /\ em_model' = Some(em_loads + 1)
    /\ em_pc' = [em_pc EXCEPT ![t] = "dim"]
    /\ UNCHANGED <<em_dim, em_used>>
    /\ UNCHANGED <<scall, chroma, hcol, vres, live, rows, sres, tcall, appVars>>

\* `self._embedding_dim = self._model.get_sentence_embedding_dimension()`
SetDim(t) ==
    /\ em_pc[t] = "dim"
    /\ em_dim' = Some(ModelDim)
    /\ em_pc' = [em_pc EXCEPT ![t] = "return"]
    /\ UNCHANGED <<em_model, em_loads, em_used>>
    /\ UNCHANGED <<scall, chroma, hcol, vres, live, rows, sres, tcall, appVars>>

\* `return self._model`
ReturnModel(t) ==
    /\ em_pc[t] = "return"
    /\ em_used' = [em_used EXCEPT ![t] = [op |-> @.op, model |-> em_model]]
    /\ em_pc' = [em_pc EXCEPT ![t] = "use"]
    /\ UNCHANGED <<em_model, em_dim, em_loads>>
    /\ UNCHANGED <<scall, chroma, hcol, vres, live, rows, sres, tcall, appVars>>

\* the caller's statement after _load_model: config() reads
\* `self._embedding_dim or 384`, embed_text() encodes with the model it got
UseModel(t) ==
    /\ em_pc[t] = "use"
    /\ em_used' = [em_used EXCEPT ![t] =
                     [op |-> @.op, model |-> @.model,
                      dim |-> IF @.op = "config"
                              THEN (IF em_dim = None THEN FallbackDim ELSE Val(em_dim))
                              ELSE ModelDim]]
    /\ em_pc' = [em_pc EXCEPT ![t] = "done"]
    /\ UNCHANGED <<em_model, em_dim, em_loads>>
    /\ UNCHANGED <<scall, chroma, hcol, vres, live, rows, sres, tcall, appVars>>

NextEmbed ==
    \E t \in Callers :
        \/ EnterCall(t)
        \/ TestModel(t)
        \/ ConstructModel(t)
        \/ SetDim(t)
        \/ ReturnModel(t)
        \/ UseModel(t)

-----------------------------------------------------------------------------
(* Evidence extraction                                                     *)

Letters ==
    {"a", "b", "c", "d", "e", "f", "g", "h", "i", "j", "k", "l", "m", "n", "o", "p",
     "q", "r", "s", "t", "u", "v", "w", "x", "y", "z"}

\* re.findall(r"\b[a-zA-Z]+\b", text): the maximal runs of word characters
\* that are letters throughout
LetterWords(text) ==
    { SubSeq(text, a, b) : <<a, b>> \in
        { p \in (1..Len(text)) \X (1..Len(text)) :
            /\ p[1] <= p[2]
            /\ \A i \in p[1]..p[2] : text[i] \in Letters
            /\ (p[1] = 1 \/ ~IsWordChar(text[p[1] - 1]))
            /\ (p[2] = Len(text) \/ ~IsWordChar(text[p[2] + 1])) } }

\* stop_words of extract_keywords
StopWords ==
    { <<"t", "h", "e">>, <<"a">>, <<"a", "n">>,
      <<"a", "n", "d">>, <<"o", "r">>, <<"b", "u", "t">>,
      <<"i", "n">>, <<"o", "n">>, <<"a", "t">>,
      <<"t", "o">>, <<"f", "o", "r">>, <<"o", "f">>,
      <<"w", "i", "t", "h">>, <<"b", "y">>, <<"f", "r", "o", "m">>,
      <<"a", "s">>, <<"i", "s">>, <<"w", "a", "s">>,
      <<"a", "r", "e">>, <<"w", "e", "r", "e">>, <<"b", "e", "e", "n">>,
      <<"b", "e">>, <<"h", "a", "v", "e">>, <<"h", "a", "s">>,
      <<"h", "a", "d">>, <<"d", "o">>, <<"d", "o", "e", "s">>,
      <<"d", "i", "d">>, <<"w", "i", "l", "l">>, <<"w", "o", "u", "l", "d">>,
      <<"c", "o", "u", "l", "d">>, <<"s", "h", "o", "u", "l", "d">>, <<"m", "a", "y">>,
      <<"m", "i", "g", "h", "t">>, <<"m", "u", "s", "t">>, <<"s", "h", "a", "l", "l">>,
      <<"c", "a", "n">>, <<"n", "e", "e", "d">>, <<"t", "h", "i", "s">>,
      <<"t", "h", "a", "t">>, <<"t", "h", "e", "s", "e">>, <<"t", "h", "o", "s", "e">>,
      <<"w", "h", "a", "t">>, <<"w", "h", "i", "c", "h">>, <<"w", "h", "o">>,
      <<"w", "h", "o", "m">>, <<"w", "h", "o", "s", "e">>, <<"w", "h", "e", "r", "e">>,
      <<"w", "h", "e", "n">>, <<"w", "h", "y">>, <<"h", "o", "w">>,
      <<"a", "l", "l">>, <<"e", "a", "c", "h">>, <<"e", "v", "e", "r", "y">>,
      <<"b", "o", "t", "h">>, <<"f", "e", "w">>, <<"m", "o", "r", "e">>,
      <<"m", "o", "s", "t">>, <<"o", "t", "h", "e", "r">>, <<"s", "o", "m", "e">>,
      <<"s", "u", "c", "h">>, <<"t", "h", "a", "n">>, <<"t", "o", "o">>,
      <<"v", "e", "r", "y">>, <<"j", "u", "s", "t">>, <<"a", "l", "s", "o">>,
      <<"o", "n", "l", "y">>, <<"o", "w", "n">>, <<"s", "a", "m", "e">>,
      <<"i", "n", "t", "o">>, <<"o", "v", "e", "r">>, <<"a", "f", "t", "e", "r">>,
      <<"b", "e", "f", "o", "r", "e">>, <<"b", "e", "t", "w", "e", "e", "n">>, <<"u", "n", "d", "e", "r">>,
      <<"a", "g", "a", "i", "n">>, <<"f", "u", "r", "t", "h", "e", "r">>, <<"t", "h", "e", "n">>,
      <<"o", "n", "c", "e">>, <<"h", "e", "r", "e">>, <<"t", "h", "e", "r", "e">>,
      <<"a", "b", "o", "u", "t">>, <<"t", "h", "r", "o", "u", "g", "h">>, <<"d", "u", "r", "i", "n", "g">>,
      <<"a", "b", "o", "v", "e">>, <<"b", "e", "l", "o", "w">>, <<"y", "o", "u", "r">>,
      <<"y", "o", "u">>, <<"t", "h", "e", "i", "r">>, <<"t", "h", "e", "y">>,
      <<"o", "u", "r">>, <<"w", "e">>, <<"w", "o", "r", "k">>,
      <<"w", "o", "r", "k", "i", "n", "g">>, <<"e", "x", "p", "e", "r", "i", "e", "n", "c", "e">>, <<"t", "e", "a", "m">>,
      <<"a", "b", "i", "l", "i", "t", "y">>, <<"s", "k", "i", "l", "l", "s">>, <<"s", "t", "r", "o", "n", "g">>,
      <<"e", "x", "c", "e", "l", "l", "e", "n", "t">>, <<"g", "o", "o", "d">>, <<"g", "r", "e", "a", "t">>,
      <<"b", "e", "s", "t">>, <<"w", "e", "l", "l">>, <<"n", "e", "w">>,
      <<"y", "e", "a", "r", "s">>, <<"y", "e", "a", "r">>, <<"r", "o", "l", "e">>,
      <<"p", "o", "s", "i", "t", "i", "o", "n">>, <<"c", "o", "m", "p", "a", "n", "y">>, <<"l", "o", "o", "k", "i", "n", "g">> }

MinKeywordLength == 4

\* extract_keywords(text)
extract_keywords(text) ==
    { word \in LetterWords(Lower(text)) :
        Len(word) >= MinKeywordLength /\ word \notin StopWords }

\* sorted(S, key=lambda x: (-len(x), x))
RECURSIVE SortByLengthThenName(_)
SortByLengthThenName(S) ==
    IF S = {} THEN <<>>
    ELSE LET m == CHOOSE x \in S : \A y \in S \ {x} :
                      Len(x) > Len(y) \/ (Len(x) = Len(y) /\ StrLess(x, y))
         IN  <<m>> \o SortByLengthThenName(S \ {m})

\* EvidenceExtractor.extract_skill_evidence: <<matched, job_only>>
extract_skill_evidence(resume_text, job_text) ==
    LET resume_skills == Range(extract_skills_simple(resume_text))
        job_skills == Range(extract_skills_simple(job_text))
    IN  <<SortedStrs(resume_skills \cap job_skills), SortedStrs(job_skills \ resume_skills)>>

\* EvidenceExtractor.extract_keyword_evidence
extract_keyword_evidence(resume_text, job_text) ==
    Take(SortByLengthThenName(extract_keywords(resume_text) \cap extract_keywords(job_text)),
         20)

\* re.split(r"(?<=[.!?])\s+(?=[A-Z])", text): a run of whitespace after a
\* full stop, "!" or "?" and before a capital letter separates two pieces
RECURSIVE SplitOnSentenceBreaks(_)
SplitOnSentenceBreaks(text) ==
    LET starts == { a \in 2..Len(text) :
                      /\ IsSpace(text[a])
                      /\ text[a - 1] \in {".", "!", "?"}
                      /\ \E b \in a..(Len(text) - 1) :
                            /\ \A i \in a..b : IsSpace(text[i])
                            /\ text[b + 1] \in UpperCase }
    IN  IF starts = {} THEN <<text>>
        ELSE LET a == Least(starts)
                 b == CHOOSE x \in a..(Len(text) - 1) :
                        /\ \A i \in a..x : IsSpace(text[i])
                        /\ text[x + 1] \in UpperCase
             IN  <<SubSeq(text, 1, a - 1)>>
                 \o SplitOnSentenceBreaks(SubSeq(text, b + 1, Len(text)))

\* the bullet characters of split_into_sentences the texts can hold
BulletChars == {"-", "*"}

\* split_into_sentences(text)
split_into_sentences(text) ==
    LET stripped == [i \in DOMAIN SplitOnSentenceBreaks(text) |->
                        Strip(SplitOnSentenceBreaks(text)[i])]
    IN  SelectSeq(stripped, LAMBDA sent :
            /\ Len(sent) >= 20
            /\ ~(sent[1] \in BulletChars /\ Len(sent) < 50))

\* the states of the embedding service an EvidenceExtractor can be built on
EmbedderModes == {"working", "raises", "none"}

\* embed_texts of a working service: one unit-length vector per sentence
\* (here of length 5), by the skill the sentence names
SentenceEmbedding(sentence) ==
    IF SkillPatternFound(Lower(sentence), <<"g", "o">>) THEN <<5, 0>>
    ELSE IF SkillPatternFound(Lower(sentence), <<"s", "q", "l">>) THEN <<3, 4>>
    ELSE <<0, 5>>

\* np.dot of two normalized embeddings
SentenceSimilarity(u, v) == Rat(Dot(u, v), Dot(u, u))

\* int(np.argmax(column)): the first index of the largest value
ArgMax(column) ==
    CHOOSE i \in DOMAIN column :
        /\ \A k \in DOMAIN column : RLe(column[k], column[i])
        /\ \A k \in 1..(i - 1) : RLt(column[k], column[i])

\* matches.sort(key=similarity, reverse=True), stable
RECURSIVE SortBySimilarityDesc(_)
SortBySimilarityDesc(s) ==
    IF s = <<>> THEN <<>>
    ELSE LET rest == SortBySimilarityDesc(SubSeq(s, 1, Len(s) - 1))
             x == s[Len(s)]
             k == Cardinality({i \in DOMAIN rest : RLe(x.similarity, rest[i].similarity)})
         IN  SubSeq(rest, 1, k) \o <<x>> \o SubSeq(rest, k + 1, Len(rest))

\* the matching loop of extract_semantic_evidence, embeddings in hand
SemanticMatches(resume_sentences, job_sentences, threshold, top_k) ==
    LET resume_embeddings == [i \in DOMAIN resume_sentences |->
                                 SentenceEmbedding(resume_sentences[i])]
        job_embeddings == [j \in DOMAIN job_sentences |->
                              SentenceEmbedding(job_sentences[j])]
        column(j) == [i \in DOMAIN resume_sentences |->
                         SentenceSimilarity(resume_embeddings[i], job_embeddings[j])]
        best(j) == [resume_sentence |-> resume_sentences[ArgMax(column(j))],
                    job_sentence |-> job_sentences[j],
                    similarity |-> column(j)[ArgMax(column(j))],
                    match_type |-> "semantic",
                    matched_terms |-> <<>>]
        candidates == [j \in DOMAIN job_sentences |-> best(j)]
    IN  Take(SortBySimilarityDesc(
                SelectSeq(candidates, LAMBDA m : RLe(threshold, m.similarity))),
             top_k)

SemanticEvidenceUnguarded(mode, resume_text, job_text, threshold, top_k) ==
    LET resume_sentences == split_into_sentences(resume_text)
        job_sentences == split_into_sentences(job_text)
    IN  IF resume_sentences = <<>> \/ job_sentences = <<>> THEN <<>>
        ELSE SemanticMatches(Take(resume_sentences, 30), Take(job_sentences, 30),
                             threshold, top_k)

\* EvidenceExtractor.extract_semantic_evidence
extract_semantic_evidence(mode, resume_text, job_text, threshold, top_k) ==
    LET resume_sentences == split_into_sentences(resume_text)
        job_sentences == split_into_sentences(job_text)
    IN  IF mode = "none" THEN <<>>
        ELSE IF resume_sentences = <<>> \/ job_sentences = <<>> THEN <<>>
        ELSE IF mode = "raises" THEN <<>>
        ELSE SemanticMatches(Take(resume_sentences, 30), Take(job_sentences, 30),
                             threshold, top_k)

S_resume_mentions == <<"R", "e", "s", "u", "m", "e", " ", "m", "e", "n", "t", "i", "o", "n", "s", ":", " ">>
S_job_requires == <<"J", "o", "b", " ", "r", "e", "q", "u", "i", "r", "e", "s", ":", " ">>

\* next((s for s in sentences if skill.lower() in s.lower()), default)
FirstMentioning(sentences, skill, default) ==
    LET hits == { i \in DOMAIN sentences : Contains(Lower(sentences[i]), Lower(skill)) }
    IN  IF hits = {} THEN default ELSE sentences[Least(hits)]

\* list(dict.fromkeys(s)): s without the repeats of an earlier element
Dedupe(s) ==
    LET first == { i \in DOMAIN s : \A k \in 1..(i - 1) : s[k] # s[i] }
        pick[n \in 0..Len(s)] ==
            IF n = 0 THEN <<>>
            ELSE IF n \in first THEN Append(pick[n - 1], s[n]) ELSE pick[n - 1]
    IN  pick[Len(s)]

\* EvidenceExtractor.extract_evidence: the EvidenceResult
extract_evidence(mode, job_id, resume_text, job_text, threshold, top_k) ==
    LET skill_matches == extract_skill_evidence(resume_text, job_text)[1]
        keyword_matches == extract_keyword_evidence(resume_text, job_text)
        semantic_matches ==
            extract_semantic_evidence(mode, resume_text, job_text, threshold, top_k)
        resume_sentences == split_into_sentences(resume_text)
        job_sentences == split_into_sentences(job_text)
        top_skills == Take(skill_matches, 5)
        skill_evidence ==
            [i \in DOMAIN top_skills |->
                [resume_sentence |-> FirstMentioning(resume_sentences, top_skills[i],
                                         S_resume_mentions \o top_skills[i]),
                 job_sentence |-> FirstMentioning(job_sentences, top_skills[i],
                                      S_job_requires \o top_skills[i]),
                 similarity |-> R1,
                 match_type |-> "skill",
                 matched_terms |-> <<top_skills[i]>>]]
        all_matches == semantic_matches \o skill_evidence
        top == Take(all_matches, top_k)
    IN  [job_id |-> job_id,
         matches |-> all_matches,
         top_resume_sentences |-> Dedupe([i \in DOMAIN top |-> top[i].resume_sentence]),
         top_job_sentences |-> Dedupe([i \in DOMAIN top |-> top[i].job_sentence]),
         skill_matches |-> skill_matches,
         keyword_matches |-> keyword_matches]

-----------------------------------------------------------------------------
(* Highlighting: highlight_text                                            *)
(*                                                                         *)
(* The output is kept as a sequence of characters, each recorded with the  *)
(* place it came from: the text, the class argument, or the literal span   *)
(* markup of the replacement template.                                     *)

EscapeCharIdentity(c) == <<c>>

\* html.escape(s): & < > " and ' become character references
EscapeChar(c) ==
    CASE c = "&" -> <<"&", "a", "m", "p", ";">>
      [] c = "<" -> <<"&", "l", "t", ";">>
      [] c = ">" -> <<"&", "g", "t", ";">>
      [] c = "\"" -> <<"&", "q", "u", "o", "t", ";">>
      [] c = "'" -> <<"&", "#", "x", "2", "7", ";">>
      [] OTHER -> <<c>>

RECURSIVE html_escape(_)
html_escape(s) ==
    IF s = <<>> THEN <<>> ELSE EscapeChar(Head(s)) \o html_escape(Tail(s))

\* the characters of s, each marked with its origin
From(s, origin) == [i \in DOMAIN s |-> [c |-> s[i], from |-> origin]]

S_span_open ==
    <<"<", "s", "p", "a", "n", " ", "c", "l", "a", "s", "s", "=", "\"">>
S_span_style ==
    <<"\"", " ", "s", "t", "y", "l", "e", "=", "\"", "b", "a", "c", "k",
      "g", "r", "o", "u", "n", "d", "-", "c", "o", "l", "o", "r", ":", " ",
      "#", "f", "f", "f", "3", "c", "d", ";", " ", "p", "a", "d", "d", "i",
      "n", "g", ":", " ", "1", "p", "x", " ", "3", "p", "x", ";", " ", "b",
      "o", "r", "d", "e", "r", "-", "r", "a", "d", "i", "u", "s", ":", " ",
      "3", "p", "x", ";", " ", "f", "o", "n", "t", "-", "w", "e", "i", "g",
      "h", "t", ":", " ", "5", "0", "0", ";", "\"", ">">>
S_span_close ==
    <<"<", "/", "s", "p", "a", "n", ">">>

\* '<span class="{html.escape(highlight_class)}" style="...">'
SpanOpen(highlight_class) ==
    From(S_span_open, "span") \o From(html_escape(highlight_class), "class")
        \o From(S_span_style, "span")

SpanClose == From(S_span_close, "span")

\* re.IGNORECASE match of the literal pattern p at position i of s
MatchAt(s, i, p) ==
    /\ i + Len(p) - 1 <= Len(s)
    /\ \A k \in 1..Len(p) : Lower(<<s[i + k - 1].c>>) = Lower(<<p[k]>>)

\* the positions of s at which the pattern p matches
MatchStarts(s, p) == { j \in 1..(Len(s) - Len(p) + 1) : MatchAt(s, j, p) }

\* the matches that no earlier match overlaps; n is the length of a match
Heads(all, n) == { c \in all : \A d \in all : ~(c - n < d /\ d < c) }

\* the matches from h up to the next head: a run of overlapping matches
Run(all, heads, h) == { c \in all : c >= h /\ \A g \in heads : g <= h \/ g > c }

\* the scan of re over a run: the leftmost match from position i on is
\* taken, the scan resumes after its end
RECURSIVE Scan(_, _, _)
Scan(run, i, n) ==
    LET later == { j \in run : j >= i }
    IN  IF later = {} THEN {}
        ELSE {Least(later)} \cup Scan(run, Least(later) + n, n)

\* the leftmost non-overlapping matches, as pattern.sub replaces them
Leftmost(all, n) ==
    UNION { UNION { Scan(Run(all, heads, h), h, n) : h \in heads } :
              heads \in { Heads(all, n) } }

\* "".join(pieces[lo..hi])
RECURSIVE Join(_, _, _)
Join(pieces, lo, hi) ==
    IF hi < lo THEN <<>>
    ELSE IF lo = hi THEN pieces[lo]
    ELSE Join(pieces, lo, (lo + hi) \div 2) \o Join(pieces, ((lo + hi) \div 2) + 1, hi)

\* s with the matches of length n that start at the positions in starts
\* wrapped in the span
Wrap(s, n, open, starts) ==
    Join([q \in DOMAIN s |->
             (IF q \in starts THEN open ELSE <<>>) \o <<s[q]>>
                 \o (IF (q - n) + 1 \in starts THEN SpanClose ELSE <<>>)],
         1, Len(s))

\* pattern.sub(template, s) for a non-empty pattern p
SubMatches(s, p, open) == Wrap(s, Len(p), open, Leftmost(MatchStarts(s, p), Len(p)))

\* pattern.sub(template, s) for the empty pattern: an empty match, hence an
\* empty span, before every character of s and at its end
SubEmpty(s, open) ==
    Join([q \in DOMAIN s |-> open \o SpanClose \o <<s[q]>>], 1, Len(s))
        \o open \o SpanClose

\* re.compile(re.escape(safe_term), re.IGNORECASE).sub(template, safe_text)
Sub(safe_term, open, safe_text) ==
    IF safe_term = <<>> THEN SubEmpty(safe_text, open)
    ELSE SubMatches(safe_text, safe_term, open)

\* the loop over terms
RECURSIVE HighlightTerms(_, _, _)
HighlightTerms(safe_text, terms, highlight_class) ==
    IF terms = <<>> THEN safe_text
    ELSE TheOnly({ HighlightTerms(next, Tail(terms), highlight_class) :
                     next \in { Sub(html_escape(Head(terms)),
                                   SpanOpen(highlight_class), safe_text) } })

\* highlight_text(text, terms, highlight_class)
highlight_text(text, terms, highlight_class) ==
    IF terms = <<>> THEN From(html_escape(text), "text")
    ELSE HighlightTerms(From(html_escape(text), "text"), terms, highlight_class)

-----------------------------------------------------------------------------
(* Text function calls                                                     *)
(*                                                                         *)
(* Texts are concatenations of up to MaxTokens tokens; tcall records the   *)
(* one call made, with its arguments and outcome.                          *)

\* "".join(parts)
RECURSIVE Concat(_)
Concat(parts) == IF parts = <<>> THEN <<>> ELSE parts[1] \o Concat(Tail(parts))

\* the texts made of up to n tokens
TextsOf(tokens, n) == { Concat(parts) : parts \in SeqsUpTo(tokens, n) }

\* markup, character references, whitespace and a boilerplate phrase
CleanTokens ==
    { <<"<">>, <<">">>, <<"&", "l", "t", ";">>, <<"&", "g", "t", ";">>,
      <<"&", "a", "m", "p", ";">>, <<"l", "t", ";">>, <<"a">>, <<" ">>,
      <<"\n">>, <<"\r">>, <<"\t">>, <<"a", "p", "p", "l", "y", " ", "n", "o", "w">> }

RawTexts == TextsOf(CleanTokens, MaxTokens)

\* resume lines: skills, separators and boilerplate phrases
ResumeTokens ==
    { <<"g", "o">>, <<"s", "q", "l">>, <<" ">>, <<"\n">>,
      <<",">>, <<"a", "p", "p", "l", "y", " ", "n", "o", "w">>, <<"e", "o", "e">> }

ResumeTexts == TextsOf(ResumeTokens, MaxTokens)

\* skills with and without a trailing special character, and what follows them
SkillTokens ==
    { <<"c", "+", "+">>, <<"g", "o">>, <<"S", "Q", "L">>, <<" ">>,
      <<",">>, <<"x">>, <<".">> }

SkillTexts == TextsOf(SkillTokens, MaxTokens)

CleanJobCall ==
    /\ tcall = NoCall
    /\ \E text \in RawTexts :
         tcall' = [op |-> "clean_job_text", text |-> text, result |-> clean_job_text(text)]
    /\ UNCHANGED <<scall, chroma, hcol, vres, live, rows, sres, embVars, appVars>>

CleanResumeCall ==
    /\ tcall = NoCall
    /\ \E text \in RawTexts :
         tcall' = [op |-> "clean_resume_text", text |-> text,
                   result |-> clean_resume_text(text)]
    /\ UNCHANGED <<scall, chroma, hcol, vres, live, rows, sres, embVars, appVars>>

\* AppState.create_resume_profile: the text kept, the skills and the text embedded
create_resume_profile(raw_text) ==
    LET clean_result == clean_resume_text(raw_text)
    IN  [status |-> "ok",
         clean_text |-> clean_result.text,
         skills |-> Range(extract_skills_simple(raw_text)),
         embedded_text |-> clean_result.text]

\* _process_resume_text on a text not processed before, with an embedding
\* manager: what it leaves in the session state
process_resume_text(raw_text) ==
    IF Strip(raw_text) = <<>> THEN [status |-> "empty"]
    ELSE LET clean_text == clean_job_text(raw_text).text
         IN  [status |-> "ok",
              clean_text |-> clean_text,
              skills |-> Range(extract_skills_simple(clean_text)),
              embedded_text |-> clean_text]

IngestPaths == {"api", "streamlit"}

IngestResumeCall ==
    /\ tcall = NoCall
    /\ \E path \in IngestPaths, raw_text \in ResumeTexts :
         tcall' = [op |-> "ingest_resume", path |-> path, raw_text |-> raw_text,
                   result |-> IF path = "api" THEN create_resume_profile(raw_text)
                              ELSE process_resume_text(raw_text)]
    /\ UNCHANGED <<scall, chroma, hcol, vres, live, rows, sres, embVars, appVars>>

\* cleaned resume texts: none, two sentences naming two skills, a fragment
EvidenceResumes ==
    { <<>>,
      <<"R", "u", "n", "s", " ", "g", "o", " ", "s", "e", "r", "v", "i", "c",
        "e", "s", " ", "d", "a", "i", "l", "y", ".", " ", "U", "s", "e", "s",
        " ", "s", "q", "l", " ", "f", "o", "r", " ", "r", "e", "p", "o", "r",
        "t", "s", ".">>,
      <<"C", "+", "+", " ", "e", "n", "g", "i", "n", "e", "s">> }

\* pieces of job texts: two sentences, a short one, a bullet line
JobSentenceTokens ==
    { <<"G", "o", " ", "a", "n", "d", " ", "s", "q", "l", " ", "s", "e", "r",
        "v", "i", "c", "e", "s", " ", "r", "u", "n", ".", " ">>,
      <<"U", "s", "e", "s", " ", "c", "+", "+", " ", "f", "o", "r", " ", "e",
        "n", "g", "i", "n", "e", "s", " ", "d", "a", "i", "l", "y", ".", " ">>,
      <<"G", "o", ".", " ">>,
      <<"-", " ", "R", "e", "q", "u", "i", "r", "e", "s", " ", "s", "q", "l",
        " ", "r", "e", "p", "o", "r", "t", "s", ".", " ">> }

EvidenceJobTexts == TextsOf(JobSentenceTokens, MaxTokens)

\* get_evidence_extractor: top_k_sentences and similarity_threshold
EvidenceTopK == 5
EvidenceThreshold == RHalf

\* EvidenceExtractor(embedding_manager, 5, 0.5).extract_evidence(...)
ExtractEvidenceCall ==
    /\ tcall = NoCall
    /\ \E mode \in EmbedderModes, resume_text \in EvidenceResumes,
          job_text \in EvidenceJobTexts :
         tcall' = [op |-> "extract_evidence", mode |-> mode,
                   resume_text |-> resume_text, job_text |-> job_text,
                   status |-> "ok",
                   result |-> extract_evidence(mode, "j1", resume_text, job_text,
                                               EvidenceThreshold, EvidenceTopK)]
    /\ UNCHANGED <<scall, chroma, hcol, vres, live, rows, sres, embVars, appVars>>

\* pieces of texts: markup, a character reference, a capital letter, nothing
HighlightTokens ==
    { <<"<", "s", "c", "r", "i", "p", "t", ">">>, <<"&", "l", "t", ";">>,
      <<"S">>, <<>> }

HighlightTexts == { a \o b : a, b \in HighlightTokens }

\* terms: the empty one, one matching the span markup, markup itself, the
\* inside of a character reference
HighlightTermWords ==
    { <<>>, <<"s">>, <<"<", "s", "c", "r", "i", "p", "t", ">">>, <<"l", "t">> }

\* no term, one term, two terms of which one at most is empty
HighlightTermLists ==
    {<<>>} \cup { <<a>> : a \in HighlightTermWords }
        \cup { t \in { <<a, b>> : a, b \in HighlightTermWords } : t # << <<>>, <<>> >> }

\* the default class, and one with markup characters
HighlightClasses ==
    { <<"h", "i", "g", "h", "l", "i", "g", "h", "t">>,
      <<"x", "\"", ">", "<", "s">> }

\* highlight_text(text, terms, highlight_class)
HighlightCall ==
    /\ tcall = NoCall
    /\ \E text \in HighlightTexts, terms \in HighlightTermLists,
          highlight_class \in HighlightClasses :
         tcall' = [op |-> "highlight_text", text |-> text, terms |-> terms,
                   highlight_class |-> highlight_class,
                   result |-> highlight_text(text, terms, highlight_class)]
    /\ UNCHANGED <<scall, chroma, hcol, vres, live, rows, sres, embVars, appVars>>

ExtractSkillsCall ==
    /\ tcall = NoCall
    /\ \E text \in SkillTexts :
         tcall' = [op |-> "extract_skills_simple", text |-> text,
                   result |-> extract_skills_simple(text)]
    /\ UNCHANGED <<scall, chroma, hcol, vres, live, rows, sres, embVars, appVars>>

NextText ==
    \/ CleanJobCall
    \/ CleanResumeCall
    \/ IngestResumeCall
    \/ ExtractSkillsCall
    \/ ExtractEvidenceCall

NextHighlight == HighlightCall

-----------------------------------------------------------------------------
(* Streamlit session: resume upload                                        *)

\* _init_resume_state and _init_feedback_state: the keys of a new session
InitSession ==
    [resume_raw_text |-> <<>>,
     resume_clean_text |-> <<>>,
     resume_skills |-> <<>>,
     resume_embedding |-> None,
     resume_hash |-> <<>>,
     resume_source |-> "",
     feedback_history |-> [id \in {} |-> 0],
     feedback_count |-> [saved |-> 0, rejected |-> 0]]

\* _compute_text_hash; the model takes sha256 to be free of collisions
compute_text_hash(text) == <<"#">> \o text

\* EmbeddingManager.embed_text of a loaded model
embed_text(text) == SentenceEmbedding(text)

\* _process_resume_text: <<session state, outcome>>; the text keys are
\* written before embed_text is called, so a raising embed_text leaves the
\* embedding of the resume before
process_resume_submission(state, raw_text, source, embedder) ==
    IF Strip(raw_text) = <<>> THEN <<state, "empty">>
    ELSE IF compute_text_hash(raw_text) = state.resume_hash THEN <<state, "ok">>
    ELSE
        LET clean_text == clean_job_text(raw_text).text
            updated == [state EXCEPT
                          !.resume_raw_text = raw_text,
                          !.resume_clean_text = clean_text,
                          !.resume_skills = extract_skills_simple(clean_text),
                          !.resume_hash = compute_text_hash(raw_text),
                          !.resume_source = source]
        IN  IF embedder = "none"
            THEN <<[updated EXCEPT !.resume_embedding = None], "ok">>
            ELSE IF embedder = "raises" THEN <<updated, "raised">>
            ELSE <<[updated EXCEPT !.resume_embedding = Some(embed_text(clean_text))],
                   "ok">>

\* resume texts of a session: skills, blanks and line breaks
SessionTokens == { <<"g", "o">>, <<"s", "q", "l">>, <<" ">>, <<"\n">> }

SessionTexts == TextsOf(SessionTokens, 2)

\* the user uploads a PDF or pastes a text
SubmitResume ==
    /\ \E raw_text \in SessionTexts, source \in {"pdf", "text"},
          embedder \in EmbedderModes :
         \E out \in { process_resume_submission(session, raw_text, source, embedder) } :
            /\ session' = out[1]
            /\ tcall' = [op |-> "submit_resume", raw_text |-> raw_text,
                         source |-> source, embedder |-> embedder, result |-> out[2]]
    /\ UNCHANGED <<scall, chroma, hcol, vres, live, rows, sres, embVars, build,
                   app_state>>

NextSession == SubmitResume

-----------------------------------------------------------------------------
(* Streamlit session: feedback                                             *)

LABEL_INTERESTED == 1
LABEL_NOT_INTERESTED == 0

\* the session part of set_feedback_for_job
set_feedback_for_job(state, job_id, label) ==
    LET history == state.feedback_history
        old_label == IF job_id \in DOMAIN history THEN Some(history[job_id]) ELSE None
        count == state.feedback_count
        key == IF label = LABEL_INTERESTED THEN "saved" ELSE "rejected"
        other == IF label = LABEL_INTERESTED THEN "rejected" ELSE "saved"
    IN  [state EXCEPT
           !.feedback_history =
               [k \in DOMAIN history \cup {job_id} |->
                   IF k = job_id THEN label ELSE history[k]],
           !.feedback_count =
               IF old_label = None THEN [count EXCEPT ![key] = @ + 1]
               ELSE IF Val(old_label) # label
               THEN [count EXCEPT ![key] = @ + 1, ![other] = @ - 1]
               ELSE count]

ClearFeedbackKeepsCount(state, job_id) ==
    LET history == state.feedback_history
    IN  [state EXCEPT !.feedback_history = [k \in DOMAIN history \ {job_id} |-> history[k]]]

\* the session part of clear_feedback_for_job
clear_feedback_for_job(state, job_id) ==
    LET history == state.feedback_history
        count == state.feedback_count
    IN  IF job_id \notin DOMAIN history THEN state
        ELSE [state EXCEPT
                !.feedback_history = [k \in DOMAIN history \ {job_id} |-> history[k]],
                !.feedback_count =
                    IF history[job_id] = LABEL_INTERESTED
                    THEN [count EXCEPT !.saved = @ - 1]
                    ELSE [count EXCEPT !.rejected = @ - 1]]

\* the ids of the jobs a result list shows
FeedbackJobIds == { job.id : job \in SearchJobs }

\* the user saves or rejects a job; with a database the label is persisted
SetFeedback ==
    /\ \E job_id \in FeedbackJobIds,
          label \in {LABEL_INTERESTED, LABEL_NOT_INTERESTED}, with_db \in BOOLEAN :
         /\ session' = set_feedback_for_job(session, job_id, label)
         /\ rows' = IF with_db THEN update_label(rows, job_id, Some(label))[1] ELSE rows
    /\ UNCHANGED <<scall, chroma, hcol, vres, live, sres, embVars, tcall, build,
                   app_state>>

\* the user withdraws the label of a job
ClearFeedback ==
    /\ \E job_id \in FeedbackJobIds, with_db \in BOOLEAN :
         /\ session' = clear_feedback_for_job(session, job_id)
         /\ rows' = IF with_db THEN update_label(rows, job_id, None)[1] ELSE rows
    /\ UNCHANGED <<scall, chroma, hcol, vres, live, sres, embVars, tcall, build,
                   app_state>>

NextFeedbackUi == InsertJob \/ SetFeedback \/ ClearFeedback

-----------------------------------------------------------------------------
(* API application state: the current resume profile                       *)

CreateProfileSetFirst(state, raw_text, preferred_location, min_salary, embedder) ==
    LET clean_result == clean_resume_text(raw_text)
        profile == [raw_text |-> raw_text,
                    clean_text |-> clean_result.text,
                    skills |-> Range(extract_skills_simple(raw_text)),
                    embedding |-> None,
                    preferred_location |-> preferred_location,
                    min_salary |-> min_salary]
    IN  IF embedder = "raises"
        THEN <<[state EXCEPT !.resume_profile = Some(profile)], "raised">>
        ELSE <<[state EXCEPT !.resume_profile =
                    Some([profile EXCEPT !.embedding = embed_text(clean_result.text)])],
               "ok">>

\* AppState.create_resume_profile and set_resume_profile: <<state, outcome>>;
\* embed_text is called before the profile is built and set
AppStateCreateResumeProfile(state, raw_text, preferred_location, min_salary, embedder) ==
    LET clean_result == clean_resume_text(raw_text)
        skills == Range(extract_skills_simple(raw_text))
    IN  IF embedder = "raises" THEN <<state, "raised">>
        ELSE <<[state EXCEPT !.resume_profile =
                    Some([raw_text |-> raw_text,
                          clean_text |-> clean_result.text,
                          skills |-> skills,
                          embedding |-> embed_text(clean_result.text),
                          preferred_location |-> preferred_location,
                          min_salary |-> min_salary])],
               "ok">>

\* uploaded texts: a skill with blanks or line breaks around it
UploadTexts == { text \in SessionTexts : Len(text) <= 3 }

\* POST /resume/upload of a text file: the embedder works or raises
UploadResume ==
    /\ \E raw_text \in UploadTexts, preferred_location \in {None, Some(<<"n", "y">>)},
          min_salary \in {None, Some(100)}, embedder \in {"working", "raises"} :
         \E out \in { AppStateCreateResumeProfile(app_state, raw_text,
                            preferred_location, min_salary, embedder) } :
            /\ app_state' = out[1]
            /\ tcall' = [op |-> "upload_resume", raw_text |-> raw_text,
                         preferred_location |-> preferred_location,
                         min_salary |-> min_salary, before |-> app_state,
                         status |-> out[2]]
    /\ UNCHANGED <<scall, chroma, hcol, vres, live, rows, sres, embVars, build,
                   session>>

NextAppState == UploadResume

-----------------------------------------------------------------------------
(* Collector: MetadataDB.insert_jobs                                       *)

\* collected jobs: two that share nothing, one with the id of the first and
\* one with the (source, source_id) of the first
CollectedJobs ==
    { MkJob("j1", <<"G", "o">>, <<"N", "Y">>, 0, <<None, None>>),
      MkJob("j2", <<"G", "o">>, <<"N", "Y">>, 0, <<None, None>>),
      [MkJob("j1", <<>>, <<"N", "Y">>, 30, <<None, None>>)
          EXCEPT !.source = "other"],
      [MkJob("j3", <<>>, <<"N", "Y">>, 30, <<None, None>>)
          EXCEPT !.source_id = "j1"] }

\* the longest list handed to insert_jobs
MaxBatch == 2

\* the collector stores a list of jobs
InsertJobsCall ==
    \E jobs \in SeqsUpTo(CollectedJobs, MaxBatch) :
        \E out \in { insert_jobs(rows, jobs) } :
            /\ rows' = out[1]
            /\ sres' = [op |-> "insert_jobs", jobs |-> jobs, before |-> rows,
                        result |-> <<out[2], out[3]>>]
            /\ UNCHANGED <<scall, chroma, hcol, vres, live, embVars, tcall, appVars>>

\* the user labels a stored job
LabelJob ==
    /\ \E id \in DOMAIN rows, label \in Labels :
          rows' = update_label(rows, id, label)[1]
    /\ sres' = NoCall
    /\ UNCHANGED <<scall, chroma, hcol, vres, live, embVars, tcall, appVars>>

NextCollect == InsertJobsCall \/ LabelJob

-----------------------------------------------------------------------------
(* posted_at from the collector to the vector index                        *)
(*                                                                         *)
(* A datetime is a day of the month, an hour, a fraction of a second (one  *)
(* digit) and a UTC offset in hours, None for a naive datetime.            *)

DigitChars == <<"0", "1", "2", "3", "4", "5", "6", "7", "8", "9">>

\* a number below 100 as two digits
TwoDigits(n) == <<DigitChars[(n \div 10) + 1], DigitChars[(n % 10) + 1]>>

\* the number two digits stand for
NumberOf(d) ==
    (CHOOSE i \in 0..9 : DigitChars[i + 1] = d[1]) * 10
        + (CHOOSE i \in 0..9 : DigitChars[i + 1] = d[2])

\* datetime.isoformat(): the fraction is left out when it is zero, the
\* offset when the datetime is naive
isoformat(dt) ==
    TwoDigits(dt.day) \o <<"T">> \o TwoDigits(dt.hour)
        \o (IF dt.fraction = 0 THEN <<>> ELSE <<".", DigitChars[dt.fraction + 1]>>)
        \o (IF dt.tz = None THEN <<>>
            ELSE <<IF Val(dt.tz) < 0 THEN "-" ELSE "+">>
                 \o TwoDigits(Abs(Val(dt.tz))) \o <<":", "0", "0">>)

\* datetime.fromisoformat
fromisoformat(text) ==
    LET has_fraction == Len(text) > 5 /\ text[6] = "."
        rest == SubSeq(text, IF has_fraction THEN 8 ELSE 6, Len(text))
    IN  [day |-> NumberOf(SubSeq(text, 1, 2)),
         hour |-> NumberOf(SubSeq(text, 4, 5)),
         fraction |-> IF has_fraction
                      THEN CHOOSE i \in 0..9 : DigitChars[i + 1] = text[7]
                      ELSE 0,
         tz |-> IF rest = <<>> THEN None
                ELSE Some((IF rest[1] = "-" THEN -1 ELSE 1)
                            * NumberOf(SubSeq(rest, 2, 3)))]

EnsureUtcKeepsOffset(dt) == dt

\* MetadataDB._ensure_utc
ensure_utc(dt) ==
    IF dt.tz = None THEN [dt EXCEPT !.tz = Some(0)]
    ELSE LET hours == dt.day * 24 + dt.hour - Val(dt.tz)
         IN  [dt EXCEPT !.day = hours \div 24, !.hour = hours % 24, !.tz = Some(0)]

\* the posted_at column insert_jobs writes
StoredPostedAt(dt) == isoformat(dt)

\* the posted_at of the Job _row_to_job builds from a row
RowPostedAt(text) == ensure_utc(fromisoformat(text))

\* the posted_at entry of build_job_metadata_for_chroma
MetadataPostedAt(dt) == isoformat(dt)

\* the posted_at entry the index builder writes for a job the collector stored
IndexedPostedAt(dt) == MetadataPostedAt(RowPostedAt(StoredPostedAt(dt)))

\* posted_at values of collected jobs: naive, UTC, ahead of and behind UTC
PostedAts ==
    [day : {1, 2}, hour : {0, 9, 22}, fraction : {0, 5},
     tz : { None, Some(0), Some(5), Some(-5) }]

\* two collected jobs reach the vector index
IndexPostedAtCall ==
    /\ tcall = NoCall
    /\ \E a, b \in PostedAts :
         tcall' = [op |-> "index_posted_at", a |-> a, b |-> b,
                   result |-> <<IndexedPostedAt(a), IndexedPostedAt(b)>>]
    /\ UNCHANGED <<scall, chroma, hcol, vres, live, rows, sres, embVars, appVars>>

NextPostedAt == IndexPostedAtCall

-----------------------------------------------------------------------------
(* Index builder: scripts/build_vector_index.py                            *)

\* MetadataDB.get_job_count
get_job_count(table, source) ==
    Cardinality({ k \in DOMAIN table :
                    ~Truthy(source, "") \/ table[k].source = Val(source) })

\* the rowid of a row; the model takes rowids to follow the ids
RowId(id) == CHOOSE i \in DOMAIN IdSeq : IdSeq[i] = id

GetAllJobsNoOffset(table, limit, offset, source) ==
    LET matching == { k \in DOMAIN table :
                        ~Truthy(source, "") \/ table[k].source = Val(source) }
        Before(a, b) ==
            \/ table[a].posted_days < table[b].posted_days
            \/ (table[a].posted_days = table[b].posted_days /\ RowId(a) > RowId(b))
        ordered == [i \in 1..Cardinality(matching) |->
                        table[CHOOSE k \in matching :
                                Cardinality({ m \in matching : Before(m, k) }) = i - 1]]
    IN  IF Truthy(limit, 0) /\ Val(limit) > 0
        THEN SubSeq(ordered, 1, Min(Val(limit), Len(ordered)))
        ELSE ordered

\* MetadataDB.get_all_jobs without a label filter: ORDER BY posted_at DESC
\* read off idx_jobs_posted_at backwards, so rows of one posted_at come by
\* descending rowid; LIMIT and OFFSET are added for a truthy limit only, and
\* a negative LIMIT is no limit
get_all_jobs(table, limit, offset, source) ==
    LET matching == { k \in DOMAIN table :
                        ~Truthy(source, "") \/ table[k].source = Val(source) }
        Before(a, b) ==
            \/ table[a].posted_days < table[b].posted_days
            \/ (table[a].posted_days = table[b].posted_days /\ RowId(a) > RowId(b))
        ordered == [i \in 1..Cardinality(matching) |->
                        table[CHOOSE k \in matching :
                                Cardinality({ m \in matching : Before(m, k) }) = i - 1]]
    IN  IF Truthy(limit, 0)
        THEN IF Val(limit) < 0 THEN SubSeq(ordered, offset + 1, Len(ordered))
             ELSE SubSeq(ordered, offset + 1, Min(offset + Val(limit), Len(ordered)))
        ELSE ordered

S_title == <<"T", "i", "t", "l", "e", ":", " ">>
S_company == <<"C", "o", "m", "p", "a", "n", "y", ":", " ">>
S_location == <<"L", "o", "c", "a", "t", "i", "o", "n", ":", " ">>
S_description == <<"D", "e", "s", "c", "r", "i", "p", "t", "i", "o", "n", ":">>

\* build_job_document; the descriptions of the model stay below
\* max_description_chars, so nothing is truncated
build_job_document(title, company, location, description) ==
    LET cleaned == IF "<" \in Range(description) /\ ">" \in Range(description)
                   THEN clean_job_text(description).text
                   ELSE description
    IN  JoinLines(<< Strip(S_title \o Strip(title)),
                     Strip(S_company \o Strip(company)),
                     Strip(S_location \o Strip(location)),
                     <<>>,
                     S_description,
                     Strip(cleaned) >>)

\* is_text_too_short
is_text_too_short(text, min_chars) ==
    \/ text = <<>>
    \/ Len(SelectSeq(text, LAMBDA c : c \notin {" ", "\n"})) < min_chars

\* process_jobs_batch passes min_chars = 100
MIN_DOC_CHARS == 100

\* jobs of the row store the builder reads: two of one posted_at and one of
\* another source whose document is too short to index
LongTitle == [i \in 1..80 |-> "x"]

BuildJob(id, source, posted_days, title) ==
    [id |-> id, source |-> source, source_id |-> id, title |-> title,
     company |-> <<"A", "c", "m", "e">>, description |-> <<"G", "o">>,
     location |-> <<"N", "Y">>, posted_days |-> posted_days,
     salary_min |-> None, salary_max |-> None, label |-> None]

BuildJobs ==
    { BuildJob("j1", "adzuna", 0, LongTitle),
      BuildJob("j2", "adzuna", 0, LongTitle),
      BuildJob("j3", "other", 60, <<"D", "e", "v">>) }

\* the document process_jobs_batch builds for a job
JobDocument(job) ==
    build_job_document(job.title, job.company, job.location,
                       clean_job_text(job.description).text)

\* the document of each job of the model, computed once
DocumentOf == [job \in BuildJobs |-> JobDocument(job)]

\* the embedding of each document of the model, computed once
EmbeddingOf == [d \in Range(DocumentOf) |-> SentenceEmbedding(d)]

\* EmbeddingManager.embed_texts of a loaded model, one vector per document
embed_texts(documents) == [i \in DOMAIN documents |-> EmbeddingOf[documents[i]]]

\* process_jobs_batch: <<ids, documents, embeddings, metadatas, skipped>>
process_jobs_batch(jobs) ==
    LET kept == SelectSeq(jobs, LAMBDA job :
                    ~is_text_too_short(DocumentOf[job], MIN_DOC_CHARS))
        documents == [i \in DOMAIN kept |-> DocumentOf[kept[i]]]
    IN  << [i \in DOMAIN kept |-> kept[i].id],
           documents,
           embed_texts(documents),
           [i \in DOMAIN kept |-> build_job_metadata_for_chroma(kept[i])],
           Len(jobs) - Len(kept) >>

\* VectorDB.upsert_jobs default batch_size
UPSERT_BATCH_SIZE == 256

NoBuild == [pc |-> "idle", prev |-> None]

\* main() up to the batch loop: --rebuild, existing_ids, total_jobs, limit
BuildStart(args) ==
    LET deleted == IF args.rebuild
                   THEN delete_collection(chroma, None, CurrentVersion)
                   ELSE <<chroma, None, "ok">>
        got == get_all_ids(deleted[1], None, CurrentVersion)
        total_jobs == get_job_count(rows, args.source)
    IN  /\ build.pc \in {"idle", "done"}
        /\ chroma' = got[1]
        /\ live' = IF args.rebuild THEN [live EXCEPT ![CurrentVersion] = {}] ELSE live
        /\ build' = [pc |-> IF total_jobs = 0 THEN "done" ELSE "loop",
                     args |-> args,
                     collection |-> got[2],
                     existing_ids |-> got[4],
                     limit |-> IF Truthy(args.limit, 0) THEN Val(args.limit)
                               ELSE total_jobs,
                     offset |-> 0,
                     pages |-> <<>>,
                     embedded |-> <<>>,
                     upserted |-> <<>>,
                     rows0 |-> rows,
                     records0 |-> got[1][CollectionName(BaseName, CurrentVersion)].records,
                     prev |-> IF build.pc = "idle" THEN None
                              ELSE Some([args |-> build.args, rows0 |-> build.rows0])]
        /\ UNCHANGED <<scall, hcol, vres, rows, sres, embVars, tcall, session, app_state>>

ProcessEveryJob(jobs, existing_ids, rebuild) == jobs

\* the jobs of a fetched batch that main() goes on to process
JobsToProcess(jobs, existing_ids, rebuild) ==
    IF ~rebuild THEN SelectSeq(jobs, LAMBDA j : j.id \notin existing_ids)
    ELSE jobs

\* the body of the batch loop after the fetch:
\* <<store, cached collection, status, ids embedded, ids upserted>>
ProcessAndUpsert(store, cached, jobs_to_process) ==
    IF jobs_to_process = <<>> THEN <<store, cached, "ok", <<>>, <<>>>>
    ELSE TheOnly({
           IF batch[1] = <<>> THEN <<store, cached, "ok", <<>>, <<>>>>
           ELSE TheOnly({ <<out[1], out[2], out[3], batch[1],
                            IF out[3] = "ok" THEN batch[1] ELSE <<>> >> :
                          out \in { upsert_jobs(store, cached, CurrentVersion,
                                                batch[1], batch[2], Some(batch[3]),
                                                batch[4], UPSERT_BATCH_SIZE) } }) :
           batch \in { process_jobs_batch(jobs_to_process) } })

\* one pass of the batch loop of main()
BuildBatch ==
    /\ build.pc = "loop"
    /\ build.offset < build.limit
    /\ \E jobs \in { get_all_jobs(rows,
                                   Some(Min(build.args.batch_size_jobs,
                                            build.limit - build.offset)),
                                   build.offset, build.args.source) } :
         IF jobs = <<>>
         THEN /\ build' = [build EXCEPT !.pc = "done"]
              /\ UNCHANGED <<chroma, live>>
         ELSE \E out \in { ProcessAndUpsert(
                              chroma, build.collection,
                              JobsToProcess(jobs, build.existing_ids,
                                            build.args.rebuild)) } :
                /\ chroma' = out[1]
                /\ live' = [live EXCEPT ![CurrentVersion] = @ \cup Range(out[5])]
                /\ build' = [build EXCEPT
                       !.pc = IF out[3] = "ok" THEN "loop" ELSE out[3],
                       !.collection = out[2],
                       !.offset = @ + Len(jobs),
                       !.pages = Append(@, [i \in DOMAIN jobs |-> jobs[i].id]),
                       !.embedded = @ \o out[4],
                       !.upserted = @ \o out[5]]
    /\ UNCHANGED <<scall, hcol, vres, rows, sres, embVars, tcall, session, app_state>>

\* the loop test fails: main() logs the summary and returns
BuildFinish ==
    /\ build.pc = "loop"
    /\ build.offset >= build.limit
    /\ build' = [build EXCEPT !.pc = "done"]
    /\ UNCHANGED <<scall, chroma, hcol, vres, live, rows, sres, embVars, tcall,
                   session, app_state>>

\* the command lines of the builder
BuildArgs ==
    [rebuild : BOOLEAN,
     source : { None, Some("adzuna") },
     limit : { None, Some(1) },
     batch_size_jobs : { 0, 1, 2 }]

\* the collector stores a job while the builder may be running
CollectJob == InsertJobOver(BuildJobs)

\* the builder is run
RunBuild == build.pc = "idle" /\ \E args \in BuildArgs : BuildStart(args)

\* the builder is run again with the command line of the run before
RunBuildAgain == build.pc = "done" /\ BuildStart(build.args)

NextBuild == CollectJob \/ RunBuild \/ RunBuildAgain \/ BuildBatch \/ BuildFinish

\* the collector stores a job before the builder starts
CollectBefore == build.pc = "idle" /\ InsertJobOver(BuildJobs)

\* the builder is run once, without --limit
RunBuildOnce ==
    /\ build.pc = "idle"
    /\ \E args \in { a \in BuildArgs : a.limit = None } : BuildStart(args)

NextBuildOnce == CollectBefore \/ RunBuildOnce \/ BuildBatch \/ BuildFinish

-----------------------------------------------------------------------------
(* Specifications                                                          *)

InitAppState == [resume_profile |-> None]

Init ==
    /\ scall = NoCall
    /\ chroma = NoCollections
    /\ hcol = [h \in Versions |-> None]
    /\ vres = NoCall
    /\ live = [h \in Versions |-> {}]
    /\ rows = NoCollections
    /\ sres = NoCall
    /\ em_model = None
    /\ em_dim = None
    /\ em_loads = 0
    /\ em_pc = [t \in Callers |-> "idle"]
    /\ em_used = [t \in Callers |-> NoCall]
    /\ tcall = NoCall
    /\ build = NoBuild
    /\ session = InitSession
    /\ app_state = InitAppState

\* no collection yet, two handles just constructed
InitNamed ==
    /\ scall = NoCall
    /\ chroma = NoCollections
    /\ hcol = [h \in NamedHandles |-> None]
    /\ vres = NoCall
    /\ live = [h \in NamedHandles |-> {}]
    /\ rows = NoCollections
    /\ sres = NoCall
    /\ em_model = None
    /\ em_dim = None
    /\ em_loads = 0
    /\ em_pc = [t \in Callers |-> "idle"]
    /\ em_used = [t \in Callers |-> NoCall]
    /\ tcall = NoCall
    /\ build = NoBuild
    /\ session = InitSession
    /\ app_state = InitAppState

\* the scorer applied to bounded inputs
SpecScorer == Init /\ [][NextScorer]_vars

\* two VectorDB handles of different versions on one persist directory
Spec == Init /\ [][NextVector]_vars

\* index builder, collector and one search of the application
SpecSearch == Init /\ [][NextSearch]_vars

SpecFeedback == Init /\ [][NextFeedback]_vars

\* two handles with explicit collection names that resolve to one collection
SpecNamed == InitNamed /\ [][NextNamed]_vars

\* the text functions applied to bounded texts
SpecText == Init /\ [][NextText]_vars

SpecHighlight == Init /\ [][NextHighlight]_vars

\* concurrent first callers of one EmbeddingManager
SpecEmbed == Init /\ [][NextEmbed]_vars

\* the index and the row store filled, then one client paging through /search
SpecApi == Init /\ [][NextApi]_vars

\* the API process, resumes uploaded one after another
SpecAppState == Init /\ [][NextAppState]_vars

\* one Streamlit session, the user labelling the jobs shown
SpecFeedbackUi == Init /\ [][NextFeedbackUi]_vars

\* one Streamlit session, resumes submitted one after another
SpecSession == Init /\ [][NextSession]_vars

\* the collector storing lists of jobs, the user labelling stored jobs
SpecCollect == Init /\ [][NextCollect]_vars

\* posted_at of collected jobs, as the index builder writes it
SpecPostedAt == Init /\ [][NextPostedAt]_vars

\* collector and index builder, the builder run any number of times
SpecBuild == Init /\ [][NextBuild]_vars

\* one run of the index builder over a store that no longer changes; the
\* script runs its loop to the end
SpecBuildOnce ==
    Init /\ [][NextBuildOnce]_vars /\ WF_vars(BuildBatch) /\ WF_vars(BuildFinish)

-----------------------------------------------------------------------------
(* Properties                                                              *)

InUnit(x) == RLe(R0, x) /\ RLe(x, R1)

\* the collection "<base>__<version>" of a handle, spelled out
VersionedName(v) == BaseName \o <<"_", "_">> \o v

RecordsOf(store, name) == IF name \in DOMAIN store THEN store[name].records ELSE {}

\* C1: a call through the handle of one version reads and changes only the
\* collection <base>__<version>: every other collection stays as it was, and
\* the hits of a query and the records of a get are records of that collection.
C1_VersionIsolation ==
    [][ vres'.op # "none" =>
          LET own == VersionedName(vres'.h)
          IN  /\ \A n \in (DOMAIN chroma \cup DOMAIN chroma') \ {own} :
                    /\ n \in DOMAIN chroma
                    /\ n \in DOMAIN chroma'
                    /\ chroma'[n] = chroma[n]
              /\ vres'.op = "query" =>
                    \A i \in DOMAIN vres'.value :
                        \E r \in RecordsOf(chroma', own) :
                            /\ r.id = vres'.value[i].id
                            /\ r.document = vres'.value[i].document
                            /\ r.metadata = vres'.value[i].metadata
                            /\ CosineDistance(vres'.args.query_embedding, r.embedding)
                                 = vres'.value[i].distance
              /\ vres'.op = "get" =>
                    \A g \in vres'.value :
                        \E r \in RecordsOf(chroma', own) :
                            r.id = g.id /\ r.document = g.document /\ r.metadata = g.metadata
              /\ vres'.op = "get_all_ids" =>
                    vres'.value = { r.id : r \in RecordsOf(chroma', own) }
      ]_vars

\* a query under B finds nothing while the A collection holds vectors
C1_Witness ==
    /\ vres.op = "query"
    /\ vres.h = <<"B">>
    /\ vres.status = "ok"
    /\ vres.value = <<>>
    /\ RecordsOf(chroma, VersionedName(<<"A">>)) # {}
    /\ VersionedName(<<"B">>) \in DOMAIN chroma

\* C2: score_jobs returns one ScoredJob per input job, by total_score
\* descending, jobs of equal total_score in their input order.
C2_ScoreJobsSortedStable ==
    (scall.op = "score_jobs" /\ scall.status = "ok") =>
        LET n == Len(scall.jobs)
            res == scall.result
        IN  /\ Len(res) = n
            /\ \E pi \in Perms(1..n) :
                 /\ \A k \in 1..n :
                      /\ res[k].job = scall.jobs[pi[k]]
                      /\ res[k].chroma_distance = scall.distances[pi[k]]
                 /\ \A k, l \in 1..n :
                      k < l =>
                        /\ RLe(res[l].total_score, res[k].total_score)
                        /\ res[l].total_score = res[k].total_score => pi[k] < pi[l]

\* the lowest-scoring job came first in the input and two jobs tie
C2_Witness ==
    /\ scall.op = "score_jobs"
    /\ scall.status = "ok"
    /\ Len(scall.result) = 3
    /\ scall.jobs[1].id = "j3"
    /\ scall.result[1].job.id = "j1"
    /\ scall.result[2].job.id = "j2"
    /\ scall.result[3].job.id = "j3"
    /\ scall.result[1].total_score = scall.result[2].total_score
    /\ RLt(scall.result[3].total_score, scall.result[2].total_score)

C4_RenormalizeSumsToOne ==
    /\ (scall.op = "renormalize" /\ scall.exclude # Components) =>
          LET remaining == Components \ scall.exclude
              total == RSumSeq(DictValues([k \in remaining |-> scall.weights[k]]))
          IN  /\ DOMAIN scall.result = remaining
              /\ \A k \in remaining :
                   IF total = R0
                   THEN scall.result[k] = Rat(1, Cardinality(remaining))
                   ELSE RMul(scall.result[k], total) = scall.weights[k]
              /\ RSumSeq(DictValues(scall.result)) = R1
    /\ (scall.op = "score_job" /\ scall.status = "ok") =>
          RSumSeq(DictValues(scall.result[1].weights)) = R1

\* the default weights without location and salary: 0.55 / 0.90
C4_Witness ==
    /\ scall.op = "renormalize"
    /\ scall.weights = DEFAULT_WEIGHTS
    /\ scall.exclude = {"location", "salary"}
    /\ scall.result["embedding_sim"] = <<11, 18>>

\* compute_location_match returns the neutral 0.5 for want of a preference
NoLocationPreference(profile) ==
    profile.preferred_location = None \/ Val(profile.preferred_location) = <<>>

\* C5: the effective weights have a location entry exactly when the profile
\* has a preferred location, i.e. location is excluded in exactly the cases
\* where its score is the neutral 0.5 for want of a preference.
C5_LocationWeightIffPreference ==
    (scall.op = "score_job" /\ scall.status = "ok") =>
        ("location" \in DOMAIN scall.result[1].weights
            <=> ~NoLocationPreference(scall.profile))

\* C6: salary is excluded from the effective weights exactly when the profile
\* has no minimum salary and the job has neither salary_min nor salary_max.
C6_SalaryExcludedIffNoSalaryData ==
    (scall.op = "score_job" /\ scall.status = "ok") =>
        ("salary" \notin DOMAIN scall.result[1].weights
            <=> /\ scall.profile.min_salary = None
                /\ scall.jobs[1].salary_min = None
                /\ scall.jobs[1].salary_max = None)

\* the ANN hits that survive the row-store lookup and the source filter
SurvivingHits(call) ==
    { i \in DOMAIN call.hits :
        /\ call.hits[i].id \in DOMAIN rows
        /\ (call.filters.sources = None
            \/ rows[call.hits[i].id].source \in Val(call.filters.sources)) }

\* C7: run_search returns at most top_k ScoredJobs, each with total_score >=
\* min_score, by descending score; top_k = 0 returns the empty list; when
\* fewer than top_k candidates survive the filters, all of them are returned.
C7_SearchHonorsTopKAndMinScore ==
    sres.op = "run_search" =>
        /\ sres.status = "ok"
        /\ Len(sres.result) <= sres.filters.top_k
        /\ \A i \in DOMAIN sres.result :
             RLe(sres.filters.min_score, sres.result[i].total_score)
        /\ \A i, j \in DOMAIN sres.result :
             i < j => RLe(sres.result[j].total_score, sres.result[i].total_score)
        /\ sres.filters.top_k = 0 => sres.result = <<>>
        /\ Cardinality(SurvivingHits(sres)) < sres.filters.top_k =>
             \A i \in SurvivingHits(sres) :
                \/ \E k \in DOMAIN sres.result : sres.result[k].job.id = sres.hits[i].id
                \/ RLt(score_job(DEFAULT_WEIGHTS, rows[sres.hits[i].id],
                                 sres.hits[i].distance, sres.profile).total_score,
                       sres.filters.min_score)

\* C8: info().count is the number of ids written to the collection and not
\* deleted since.
C8_InfoCountIsLiveIds ==
    (vres.op = "info" /\ vres.status = "ok") =>
        Val(vres.value).count = Cardinality(live[vres.h])

\* info on a collection that holds ids, the other collection holding others
C8_Witness ==
    /\ vres.op = "info"
    /\ vres.status = "ok"
    /\ Val(vres.value).count >= 1
    /\ Val(vres.value).count = Cardinality(live[vres.h])
    /\ live[<<"A">>] # live[<<"B">>]

\* index of the last occurrence of id in ids
LastIndex(ids, id) ==
    CHOOSE i \in DOMAIN ids :
        ids[i] = id /\ \A j \in DOMAIN ids : ids[j] = id => j <= i

\* C9: after a successful upsert every upserted id has exactly one record,
\* made of the document, embedding and metadata given last for it; the
\* records of all other ids are unchanged and the count grows by the number
\* of ids that were not in the collection.
C9_UpsertReplaces ==
    [][ (vres'.op = "upsert" /\ vres'.status = "ok" /\ vres'.args.ids # <<>>) =>
          LET a == vres'.args
              old == RecordsOf(chroma, VersionedName(vres'.h))
              new == RecordsOf(chroma', VersionedName(vres'.h))
              given(i) ==
                  [id |-> a.ids[i],
                   document |-> a.documents[i],
                   embedding |-> IF a.embeddings = None
                                 THEN DefaultEmbed(a.documents[i])
                                 ELSE Val(a.embeddings)[i],
                   metadata |-> a.metadatas[i]]
          IN  /\ \A id \in Range(a.ids) :
                    { r \in new : r.id = id } = { given(LastIndex(a.ids, id)) }
              /\ { r \in new : r.id \notin Range(a.ids) }
                    = { r \in old : r.id \notin Range(a.ids) }
              /\ Cardinality(new)
                    = Cardinality(old)
                      + Cardinality(Range(a.ids) \ { r.id : r \in old })
      ]_vars

\* one call upserts the same id twice, in two batches, with two documents
C9_Witness ==
    /\ vres.op = "upsert"
    /\ vres.status = "ok"
    /\ vres.args.batch_size = 1
    /\ Len(vres.args.ids) = 2
    /\ vres.args.ids[1] = vres.args.ids[2]
    /\ vres.args.documents[1] # vres.args.documents[2]
    /\ Cardinality(RecordsOf(chroma, VersionedName(vres.h))) = 1

\* the four sequences handed to upsert do not all have the same length
LengthsDiffer(a) ==
    \/ Len(a.documents) # Len(a.ids)
    \/ Len(a.metadatas) # Len(a.ids)
    \/ (a.embeddings # None /\ Len(Val(a.embeddings)) # Len(a.ids))

\* C10: upsert raises an error, and leaves the store unchanged, whenever ids,
\* documents, embeddings and metadatas do not all have the same length, empty
\* sequences included.
C10_UpsertFailsFast ==
    [][ (vres'.op = "upsert" /\ LengthsDiffer(vres'.args)) =>
          (vres'.status = "ValueError" /\ chroma' = chroma)
      ]_vars

\* callers whose call has come back from _load_model
Returned == { t \in Callers : em_pc[t] \in {"use", "done"} }

\* C11: however the first calls of concurrent callers interleave, the model
\* is constructed at most once and every caller comes back with that one
\* instance.
C11_ModelLoadedOnce ==
    /\ em_loads <= 1
    /\ \A t \in Returned : em_used[t].model = Some(1)

\* C12: a query through a handle whose embedding version is not the
\* embedding_version stored on the collection it resolves to fails with an
\* error.
C12_ForeignVersionQueryFails ==
    (/\ vres.op = "query"
     /\ vres.h.name \in DOMAIN chroma
     /\ chroma[vres.h.name].embedding_version # vres.h.version)
        => vres.status # "ok"

\* C13: cleaning is idempotent: the job cleaner applied to its own output
\* returns that output, and so does the resume cleaner.
C13_CleaningIdempotent ==
    /\ tcall.op = "clean_job_text" =>
          clean_job_text(tcall.result.text).text = tcall.result.text
    /\ tcall.op = "clean_resume_text" =>
          clean_resume_text(tcall.result.text).text = tcall.result.text

\* C14: on every resume-ingestion path the cleaned resume text is the output
\* of the pipeline without boilerplate removal, and that text is what is
\* embedded.
C14_ResumeKeepsBoilerplateLines ==
    (tcall.op = "ingest_resume" /\ tcall.result.status = "ok") =>
        /\ tcall.result.clean_text = Strip(NormalizeText(tcall.raw_text))
        /\ tcall.result.embedded_text = tcall.result.clean_text

\* the skill stands in the text as a whole token: no letter, digit or
\* underscore directly before or after it
OccursAsToken(text, skill) ==
    \E p \in 0..(Len(text) - Len(skill)) :
        /\ StartsAt(text, p, skill)
        /\ (p = 0 \/ ~IsWordChar(text[p]))
        /\ (p + Len(skill) = Len(text) \/ ~IsWordChar(text[p + Len(skill) + 1]))

\* C15: extract_skills_simple reports every lexicon skill that occurs in the
\* lowercased text as a whole token, whatever follows the occurrence; the
\* result is sorted, duplicate-free and lowercase.
C15_SkillsFoundAsTokens ==
    tcall.op = "extract_skills_simple" =>
        /\ \A k \in DOMAIN SkillsList :
              OccursAsToken(Lower(tcall.text), Lower(SkillsList[k]))
                 => Lower(SkillsList[k]) \in Range(tcall.result)
        /\ \A i \in 1..(Len(tcall.result) - 1) :
              StrLess(tcall.result[i], tcall.result[i + 1])
        /\ \A i \in DOMAIN tcall.result : Lower(tcall.result[i]) = tcall.result[i]

\* the skills extracted from the text of the scored job
JobSkillsOf(call) == Range(extract_skills_simple(call.jobs[1].description))

\* C16: with J the skills extracted from the job text and R the resume
\* skills: J empty gives score 0.5 and no matched or missing skills; otherwise
\* matched = R \cap J, missing = J \ R and score = |matched| / |J|, which is 0
\* for an empty R.
C16_SkillOverlapIsRecall ==
    (scall.op = "score_job" /\ scall.status = "ok") =>
        LET J == JobSkillsOf(scall)
            R == scall.profile.skills
            res == scall.result[1]
        IN  IF J = {}
            THEN /\ res.breakdown.skill_overlap = RHalf
                 /\ res.matched_skills = <<>>
                 /\ res.missing_skills = <<>>
            ELSE /\ Range(res.matched_skills) = R \cap J
                 /\ Range(res.missing_skills) = J \ R
                 /\ res.breakdown.skill_overlap
                      = Rat(Cardinality(R \cap J), Cardinality(J))
                 /\ (R = {} => res.breakdown.skill_overlap = R0)

\* the resume covers one of the two skills of the job
C16_Witness ==
    /\ scall.op = "score_job"
    /\ scall.status = "ok"
    /\ Cardinality(JobSkillsOf(scall)) = 2
    /\ Cardinality(scall.profile.skills \cap JobSkillsOf(scall)) = 1
    /\ scall.result[1].breakdown.skill_overlap = RHalf
    /\ Len(scall.result[1].missing_skills) = 1

\* str.split on whitespace and commas
CommaWords(s) == SplitWords(ReplaceChar(s, ",", " "))

\* the location score of the rule table, both sides lowercased
LocationRule(job_location, preferred_location) ==
    LET j == Lower(job_location)
        q == Lower(preferred_location)
    IN  IF Contains(q, S_remote) /\ Contains(j, S_remote) THEN R1
        ELSE IF Contains(j, q) \/ Contains(q, j) THEN R1
        ELSE IF CommaWords(q) \cap CommaWords(j) # {} THEN <<7, 10>>
        ELSE <<3, 10>>

\* C17: with a preferred location present the location score is 1.0 if both
\* sides contain "remote", else 1.0 if either is a substring of the other,
\* else 0.7 if they share a word when both are split on whitespace and
\* commas, else 0.3.
C17_LocationMatchRule ==
    (/\ scall.op = "score_job"
     /\ scall.status = "ok"
     /\ scall.profile.preferred_location # None
     /\ scall.profile.preferred_location # Some(<<>>))
        => scall.result[1].breakdown.location
             = LocationRule(scall.jobs[1].location, Val(scall.profile.preferred_location))

\* C18: when the embedding service raises, or none is configured,
\* extract_evidence still returns an EvidenceResult; its matches are all of
\* type "skill", and skill_matches and keyword_matches are those of a run
\* with a working service.
C18_EvidenceDegradesToSkills ==
    (tcall.op = "extract_evidence" /\ tcall.mode \in {"raises", "none"}) =>
        LET working == extract_evidence("working", "j1", tcall.resume_text,
                                        tcall.job_text, EvidenceThreshold, EvidenceTopK)
        IN  /\ tcall.status = "ok"
            /\ \A i \in DOMAIN tcall.result.matches :
                  tcall.result.matches[i].match_type = "skill"
            /\ tcall.result.skill_matches = working.skill_matches
            /\ tcall.result.keyword_matches = working.keyword_matches

\* the service raises on texts for which a working service yields a semantic
\* match; the result keeps a skill match and a keyword match
C18_Witness ==
    /\ tcall.op = "extract_evidence"
    /\ tcall.mode = "raises"
    /\ \E i \in DOMAIN extract_evidence("working", "j1", tcall.resume_text,
                                         tcall.job_text, EvidenceThreshold,
                                         EvidenceTopK).matches :
          extract_evidence("working", "j1", tcall.resume_text, tcall.job_text,
                           EvidenceThreshold, EvidenceTopK).matches[i].match_type
             = "semantic"
    /\ tcall.result.matches # <<>>
    /\ tcall.result.skill_matches # <<>>
    /\ tcall.result.keyword_matches # <<>>

S_script == <<"<", "s", "c", "r", "i", "p", "t", ">">>

Ranking(list) ==
    [i \in DOMAIN list |->
        [id |-> list[i].job.id, total_score |-> list[i].total_score,
         breakdown |-> list[i].breakdown]]

\* the row store with every label cleared
ClearLabels(table) == [k \in DOMAIN table |-> [table[k] EXCEPT !.label = None]]

\* C20: after any sequence of label updates, a search returns the same ids in
\* the same order, with the same total scores and breakdowns, as the same
\* search over the same rows with every label cleared.
C20_RankingIgnoresLabels ==
    (sres.op = "run_search" /\ sres.status = "ok") =>
        Ranking(sres.result)
            = Ranking(RankHits(ClearLabels(rows), sres.hits, sres.profile,
                               sres.filters)[2])

\* a search that ranks two jobs of which one is marked not interested and
\* one is marked interested
C20_Witness ==
    /\ sres.op = "run_search"
    /\ sres.status = "ok"
    /\ \E i, j \in DOMAIN sres.result :
          /\ sres.result[i].job.label = Some(0)
          /\ sres.result[j].job.label = Some(1)

\* the ANN hit returned for a job id
HitOf(call, id) == CHOOSE hit \in Range(call.hits) : hit.id = id

\* C21: an ANN hit whose id is not in the row store is dropped without
\* failing the search: a search whose query returned hits ends without an
\* error, every ScoredJob is a job of the row store that was among the hits,
\* no job appears twice, and each ScoredJob carries, and has its similarity
\* computed from, the distance the index returned for its own id.
C21_MissingRowsDroppedAligned ==
    (sres.op \in {"run_search", "search_jobs"} /\ sres.hits # <<>>) =>
        /\ sres.status = "ok"
        /\ \A i \in DOMAIN sres.result :
             LET sj == sres.result[i]
             IN  /\ sj.job.id \in DOMAIN rows
                 /\ sj.job = rows[sj.job.id]
                 /\ \E hit \in Range(sres.hits) : hit.id = sj.job.id
                 /\ sj.chroma_distance = HitOf(sres, sj.job.id).distance
                 /\ sj.breakdown["embedding_sim"]
                       = distance_to_similarity(HitOf(sres, sj.job.id).distance)
        /\ \A i, j \in DOMAIN sres.result :
             i # j => sres.result[i].job.id # sres.result[j].job.id
        /\ sres.op = "search_jobs" =>
             \A i \in DOMAIN sres.hits :
                (/\ sres.hits[i].id \in DOMAIN rows
                 /\ PassesFilters(rows[sres.hits[i].id], sres.filters))
                    => \E k \in DOMAIN sres.result :
                          sres.result[k].job.id = sres.hits[i].id

\* a search whose nearest hit has no row, and which returns a job that was
\* a later hit at a larger distance
C21DroppedFirst(op) ==
    /\ sres.op = op
    /\ Len(sres.hits) >= 2
    /\ sres.hits[1].id \notin DOMAIN rows
    /\ \E i \in DOMAIN sres.result :
          /\ sres.result[i].chroma_distance # sres.hits[1].distance
          /\ sres.result[i].chroma_distance = HitOf(sres, sres.result[i].job.id).distance

C21_Witness == C21DroppedFirst("run_search")

C21_WitnessApi == C21DroppedFirst("search_jobs")

\* the ids the collection held when the builder read existing_ids
IdsAtStart == { r.id : r \in build.records0 }

\* the records of the collection the builder writes to
BuildRecords == chroma[CollectionName(BaseName, CurrentVersion)].records

\* the run in progress repeats the run before it: the same command line, and
\* a row store that has not changed since the earlier run began
RepeatsEarlierRun ==
    /\ build.prev # None
    /\ Val(build.prev).args = build.args
    /\ Val(build.prev).rows0 = build.rows0
    /\ rows = build.rows0

RowsOfSource ==
    { k \in DOMAIN rows :
        ~Truthy(build.args.source, "") \/ rows[k].source = Val(build.args.source) }

\* the number of fetched pages that hold the id
PagesHolding(id) ==
    Cardinality({ p \in DOMAIN build.pages : id \in Range(build.pages[p]) })

\* a run without --limit has ended: every row of --source was fetched in
\* exactly one page, and has an entry in the collection unless its document
\* is too short
BuildCovered ==
    (build.pc = "done" /\ build.args.limit = None) =>
        \A k \in RowsOfSource :
            /\ PagesHolding(k) = 1
            /\ ~is_text_too_short(DocumentOf[rows[k]], MIN_DOC_CHARS)
                 => \E r \in BuildRecords : r.id = k

Instant(dt) ==
    (dt.day * 24 + dt.hour - (IF dt.tz = None THEN 0 ELSE Val(dt.tz))) * 10
        + dt.fraction

S_utc == <<"+", "0", "0", ":", "0", "0">>

IsPresent(table, job) ==
    \/ job.id \in DOMAIN table
    \/ \E k \in DOMAIN table :
          table[k].source = job.source /\ table[k].source_id = job.source_id

\* the jobs of the list that are stored: not present before the call, and
\* clashing with no job earlier in the list that is itself stored
RECURSIVE StoredOf(_, _)
StoredOf(before, jobs) ==
    IF jobs = <<>> THEN {}
    ELSE LET earlier == StoredOf(before, SubSeq(jobs, 1, Len(jobs) - 1))
             job == jobs[Len(jobs)]
         IN  IF \/ IsPresent(before, job)
                \/ \E e \in earlier :
                     \/ e.id = job.id
                     \/ (e.source = job.source /\ e.source_id = job.source_id)
             THEN earlier
             ELSE earlier \cup {job}

\* C24: insert_jobs(jobs) stores each job whose id and (source, source_id)
\* are not yet present and ignores the others; every row that existed stays
\* as it was, label included; it returns (inserted, duplicates) with
\* inserted + duplicates = len(jobs), and the job count grows by inserted.
C24_InsertJobsIgnoresDuplicates ==
    sres.op = "insert_jobs" =>
        /\ \A k \in DOMAIN sres.before : k \in DOMAIN rows /\ rows[k] = sres.before[k]
        /\ { rows[k] : k \in DOMAIN rows \ DOMAIN sres.before }
              = StoredOf(sres.before, sres.jobs)
        /\ sres.result[1] + sres.result[2] = Len(sres.jobs)
        /\ Cardinality(DOMAIN rows) = Cardinality(DOMAIN sres.before) + sres.result[1]

\* a list of a new job and a job with the id of a labelled row: one is
\* inserted, one is ignored, and the labelled row keeps its label
C24_Witness ==
    /\ sres.op = "insert_jobs"
    /\ sres.result = <<1, 1>>
    /\ \E i \in DOMAIN sres.jobs :
          /\ sres.jobs[i].id \in DOMAIN sres.before
          /\ sres.before[sres.jobs[i].id].label # None
          /\ sres.before[sres.jobs[i].id] # sres.jobs[i]

\* C25: after any sequence of resume submissions in a session, an embedding
\* held by the session is the embedding of the clean resume text the session
\* holds.
C25_SessionEmbeddingIsCurrent ==
    session.resume_embedding # None =>
        Val(session.resume_embedding) = embed_text(session.resume_clean_text)

\* C26: over an unchanged index and row store, the pages of GET /search
\* fetched with one limit and the offsets 0, limit, 2*limit, ... hold each job
\* at most once, and no job of a later page has a higher total score than a
\* job of an earlier page.
C26_PagesDisjointAndDescending ==
    sres.op = "pages" =>
        \A p, q \in DOMAIN sres.pages :
            \A i \in DOMAIN sres.pages[p], k \in DOMAIN sres.pages[q] :
                /\ (<<p, i>> # <<q, k>> => sres.pages[p][i].job.id # sres.pages[q][k].job.id)
                /\ (p < q => RLe(sres.pages[q][k].total_score,
                                 sres.pages[p][i].total_score))

\* C27: AppState holds at most one current resume profile; after a
\* successful create_resume_profile the current profile is the new one, its
\* clean text, skills and embedding all derived from the uploaded raw text;
\* after a create_resume_profile whose embedder raised, the current profile is
\* the one held before the call.
C27_OneCurrentProfile ==
    /\ Len(app_state.resume_profile) <= 1
    /\ tcall.op = "upload_resume" =>
         IF tcall.status = "ok"
         THEN /\ app_state.resume_profile # None
              /\ LET profile == Val(app_state.resume_profile)
                     clean_text == clean_resume_text(tcall.raw_text).text
                 IN  /\ profile.raw_text = tcall.raw_text
                     /\ profile.clean_text = clean_text
                     /\ profile.skills = Range(extract_skills_simple(tcall.raw_text))
                     /\ profile.embedding = SentenceEmbedding(clean_text)
                     /\ profile.preferred_location = tcall.preferred_location
                     /\ profile.min_salary = tcall.min_salary
         ELSE app_state = tcall.before

\* a failed upload of another text while a profile is current
C27_Witness ==
    /\ tcall.op = "upload_resume"
    /\ tcall.status = "raised"
    /\ app_state.resume_profile # None
    /\ Val(app_state.resume_profile).raw_text # tcall.raw_text
    /\ Strip(tcall.raw_text) # <<>>

\* C28: score_job returns a scored job, not an error, for every profile whose
\* min_salary is a number >= 0 (0 included) and every job with salary data,
\* and the salary score of the result lies in [0, 1].
C28_ScoreJobTotalForSalaries ==
    (/\ scall.op = "score_job"
     /\ scall.profile.min_salary # None
     /\ Val(scall.profile.min_salary) >= 0
     /\ JobSalaryMid(scall.jobs[1].salary_min, scall.jobs[1].salary_max) # None)
    => /\ scall.status = "ok"
       /\ RLe(R0, scall.result[1].breakdown.salary)
       /\ RLe(scall.result[1].breakdown.salary, R1)

\* C29: after any sequence of set_feedback_for_job and
\* clear_feedback_for_job calls with labels 0 and 1, feedback_count["saved"]
\* is the number of jobs labelled 1 in feedback_history,
\* feedback_count["rejected"] the number labelled 0, and neither is negative.
C29_FeedbackCountsMatchHistory ==
    LET history == session.feedback_history
    IN  /\ session.feedback_count.saved =
              Cardinality({ k \in DOMAIN history : history[k] = 1 })
        /\ session.feedback_count.rejected =
              Cardinality({ k \in DOMAIN history : history[k] = 0 })
        /\ session.feedback_count.saved >= 0
        /\ session.feedback_count.rejected >= 0

\* a label was changed and another withdrawn: one job saved, one rejected,
\* one without a label
C29_Witness ==
    /\ session.feedback_count = [saved |-> 1, rejected |-> 1]
    /\ Cardinality(DOMAIN session.feedback_history) = 2
    /\ \E k \in DOMAIN rows : rows[k].label = Some(0) /\ k \notin DOMAIN session.feedback_history

====
